---------------------------- MODULE Spec2Model ----------------------------
(***************************************************************************)
(* Model of tenxsqueeze's parameter sweep (ProgressCerebro.run,            *)
(* runstrategies) and of its result cache (pre_strategy, post_strategy,    *)
(* get_latest_results_file, get_id_keys), of the result path over a        *)
(* sequence of runs (get_result_path), and of the order handling of the    *)
(* strategies TenXSqueeze and MTFB3 (next, notify_order, notify_trade),    *)
(* with the entry guard, the good-momentum gate (MomentumReversal), the    *)
(* trailing stop and the status transitions of MTFB3's tickers.            *)
(*                                                                         *)
(* A parameter value is a pair <<kind, payload>>: <<"int", n>>,            *)
(* <<"float", t>> with t in tenths, <<"bool", 0 or 1>>, <<"td", minutes>>  *)
(* for a datetime.timedelta and <<"str", s>>.  A csv cell is a string.     *)
(* A file is a sequence of lines, a line a sequence of cells, line 1 the   *)
(* header.                                                                 *)
(***************************************************************************)
EXTENDS Integers, Sequences, FiniteSets, TLC

(***************************************************************************)
(* Bounds of the model.                                                    *)
(***************************************************************************)
\* Workers of the pool (Driver passes maxcpus=14; the model runs fewer).
MaxCpus == 2
\* Records appended to the partition by earlier runs, before this run.
MaxPre == 2
\* Largest number the csv reader is asked to recognise in a cell.
MaxNum == 20
\* Combinations of one sweep.
MaxCombos == 2
\* Latest bar time of a bar series.
MaxBar == 3
\* Rows the runs over the partitions store altogether.
MaxRows == 2
\* Ticks the replay makes of one bar (Driver replays twelve 5-minute bars
\* into each hour; the model replays fewer).
TicksPerBar == 2
\* Bars of the feed a strategy trades.
MaxLen == 11
\* Orders the broker takes over the feed.
MaxOrders == 3
\* Orders the broker takes for one ticker of MTFB3.
MaxTickerOrders == 7
\* Combinations of one sweep that does not save its results.
MaxUnsaved == 4
\* Combinations of one sweep whose strategy or backtest raises.
MaxFaults == 1
\* Bars delivered to the MomentumReversal indicator.
MaxMomBars == 3

(***************************************************************************)
(* Parameter sets.                                                         *)
(***************************************************************************)
\* BaseStrategy.params followed by TenXSqueeze.params: the order of
\* strategy.params._getkwargs().
ParamOrder ==
  << "logging", "progress_bar", "log_file", "save_results", "cache_logs",
     "squeeze_pro_length", "atr_length", "adx_length", "tp_trail_percent",
     "sl_trail_percent", "percent_is_atr", "tp_atr_multiplier",
     "max_trade_duration", "use_good_momentum", "frequency" >>

B(b) == <<"bool", IF b THEN 1 ELSE 0>>

\* The declared defaults, with the frequency Driver computes for interval_5m.
DefaultParams ==
  [ logging |-> B(TRUE), progress_bar |-> B(FALSE), log_file |-> <<"str", "log.txt">>,
    save_results |-> B(TRUE), cache_logs |-> B(FALSE),
    squeeze_pro_length |-> <<"int", 20>>, atr_length |-> <<"int", 10>>,
    adx_length |-> <<"int", 14>>, tp_trail_percent |-> <<"float", 4>>,
    sl_trail_percent |-> <<"float", 7>>, percent_is_atr |-> B(TRUE),
    tp_atr_multiplier |-> <<"float", 23>>, max_trade_duration |-> <<"int", 9>>,
    use_good_momentum |-> B(TRUE), frequency |-> <<"td", 5>> ]

\* strategy.params._getkwargs(): the ordered mapping name -> value.
getkwargs(p) == [i \in 1..Len(ParamOrder) |-> <<ParamOrder[i], p[ParamOrder[i]]>>]

Digit == <<"0", "1", "2", "3", "4", "5", "6", "7", "8", "9">>

RECURSIVE IntStr(_)
\* str(n) of a non-negative int.
IntStr(n) == IF n < 10 THEN Digit[n + 1] ELSE IntStr(n \div 10) \o Digit[(n % 10) + 1]

\* str(datetime.timedelta(minutes=m)) for m below one day: "H:MM:SS".
TdStr(m) ==
  IntStr(m \div 60) \o ":" \o Digit[((m % 60) \div 10) + 1] \o Digit[(m % 10) + 1] \o ":00"

\* get_id_keys with one deletion forgotten.
get_id_keys_keeps_logging(p) ==
  LET kept == SelectSeq(getkwargs(p),
                LAMBDA kv : kv[1] \notin {"progress_bar", "log_file",
                                          "save_results", "cache_logs"})
  IN [i \in 1..Len(kept) |->
        IF kept[i][1] = "frequency" THEN <<"frequency", <<"str", TdStr(kept[i][2][2])>>>>
        ELSE kept[i]]

\* ProgressCerebro.get_id_keys: the kwargs without the five non-identifying
\* keys, frequency replaced by its str().
get_id_keys(p) ==
  LET kept == SelectSeq(getkwargs(p),
                LAMBDA kv : kv[1] \notin {"logging", "progress_bar", "log_file",
                                          "save_results", "cache_logs"})
  IN [i \in 1..Len(kept) |->
        IF kept[i][1] = "frequency" THEN <<"frequency", <<"str", TdStr(kept[i][2][2])>>>>
        ELSE kept[i]]

Names(kv) == [i \in 1..Len(kv) |-> kv[i][1]]
Values(kv) == [i \in 1..Len(kv) |-> kv[i][2]]

(***************************************************************************)
(* Metrics: BacktraderResult.compact_analysis.                             *)
(***************************************************************************)
TaNames ==
  << "Total Trades", "Trades Won", "Trades Lost", "Win Percentage", "Loss Percentage",
     "Average PnL", "Gross PnL", "Net PnL", "Largest Winning Trade",
     "Largest Losing Trade", "Long Trades", "Short Trades", "Long Trades Won",
     "Long Trades Lost", "Short Trades Won", "Short Trades Lost",
     "Total Trades Duration", "Average Trade Duration", "Max Trade Duration",
     "Min Trade Duration", "Longest Winning Streak", "Longest Losing Streak" >>

DdNames ==
  << "Length", "Drawdown", "Moneydown", "Max Length", "Max Drawdown", "Max Moneydown" >>

\* A finished backtest, as far as its metrics show it: the broker's end value
\* (in tenths) and whether the trade analyzer has the statistics of closed
\* trades (without them ta["won"] raises and ta_stats is {}).
Outcomes == {[endValue |-> 10, trades |-> 0], [endValue |-> 12, trades |-> 1]}

compact_analysis(o) ==
  LET ta_stats == IF o.trades > 0
                  THEN [i \in 1..Len(TaNames) |-> <<TaNames[i], <<"int", o.trades>>>>]
                  ELSE << >>
      dd_stats == [i \in 1..Len(DdNames) |-> <<DdNames[i], <<"int", 0>>>>]
  IN << <<"End Value", <<"float", o.endValue>>>> >> \o ta_stats \o dd_stats

(***************************************************************************)
(* csv cells.                                                              *)
(***************************************************************************)
\* csv.writer's rendering of a value: str(int), repr(float), str(bool), the
\* string itself.
Fmt(v) ==
  CASE v[1] = "int"   -> IntStr(v[2])
    [] v[1] = "float" -> IntStr(v[2] \div 10) \o "." \o Digit[(v[2] % 10) + 1]
    [] v[1] = "bool"  -> IF v[2] = 1 THEN "True" ELSE "False"
    [] v[1] = "str"   -> v[2]

\* The cells that read as an integer and those that read as a float.
IntCells == [n \in 0..MaxNum |-> Fmt(<<"int", n>>)]
FloatCells == [t \in 0..(10 * MaxNum + 9) |-> Fmt(<<"float", t>>)]

\* Every cell read as text (dtype=str).
Parse_as_text(c) == <<"str", c>>

\* pandas.read_csv's reading of a cell: an integer, a float, a boolean, or
\* else the text.
Parse(c) ==
  IF \E n \in DOMAIN IntCells : IntCells[n] = c
    THEN <<"int", CHOOSE n \in DOMAIN IntCells : IntCells[n] = c>>
  ELSE IF \E t \in DOMAIN FloatCells : FloatCells[t] = c
    THEN <<"float", CHOOSE t \in DOMAIN FloatCells : FloatCells[t] = c>>
  ELSE IF c = "True" THEN <<"bool", 1>>
  ELSE IF c = "False" THEN <<"bool", 0>>
  ELSE <<"str", c>>

IsNum(v) == v[1] \in {"int", "float", "bool"}
Tenths(v) == IF v[1] = "float" THEN v[2] ELSE 10 * v[2]

\* Python's == between two values, as Series.equals compares object cells.
PyEq(a, b) ==
  IF IsNum(a) /\ IsNum(b) THEN Tenths(a) = Tenths(b)
  ELSE a[1] = "str" /\ b[1] = "str" /\ a[2] = b[2]


(***************************************************************************)
(* The partition directory: a function from file name to file content.     *)
(***************************************************************************)
\* The names the code assumes (line 60): results.csv, results_1.csv, ...
FileName(n) == IF n = 0 THEN "results.csv" ELSE "results_" \o IntStr(n) \o ".csv"

\* int(k.split("_")[1].rstrip(".csv")) if "_" in k else 0, on those names.
Suffix(k) ==
  IF k = "results.csv" THEN 0 ELSE CHOOSE n \in 1..MaxNum : FileName(n) = k

\* The orders in which os.listdir may list a directory.
Listings(fs) ==
  {l \in [1..Cardinality(DOMAIN fs) -> DOMAIN fs] :
      \A i, j \in DOMAIN l : i # j => l[i] # l[j]}

\* max(existing_files, key=existing_files.get): the first name of the
\* listing that has the largest value.
MaxKey(listing) ==
  LET best == CHOOSE i \in DOMAIN listing :
                /\ \A j \in DOMAIN listing : Suffix(listing[j]) <= Suffix(listing[i])
                /\ \A j \in 1..(i - 1) : Suffix(listing[j]) < Suffix(listing[i])
  IN listing[best]

\* The latest file taken by scan position instead of by number.
latest_by_listing_order(listing) ==
  IF Len(listing) > 0 THEN listing[Len(listing)] ELSE "results.csv"

\* ProgressCerebro.get_latest_results_file: the file path (existing_files is
\* the listing itself).
get_latest_results_file(listing) ==
  IF Len(listing) > 0 THEN MaxKey(listing) ELSE "results.csv"

\* pyutil.unique_file_name (a library outside the repository): a name of the
\* assumed form that no file of the directory has yet.
unique_file_name(fs) ==
  FileName(CHOOSE n \in 1..(Cardinality(DOMAIN fs) + 1) :
             /\ FileName(n) \notin DOMAIN fs
             /\ \A m \in 1..(n - 1) : FileName(m) \in DOMAIN fs)

\* The header and the row post_strategy writes for a finished strategy.
HeaderOf(keys, metrics) == Names(keys) \o Names(metrics)
RowOf(keys, metrics) ==
  LET vals == Values(keys) \o Values(metrics)
  IN [i \in 1..Len(vals) |-> Fmt(vals[i])]

\* post_strategy's choice with the rotation not marking the file as new.
append_target_rotation_unmarked(fs, listing, header) ==
  LET file_path == get_latest_results_file(listing)
      new_file == Len(listing) = 0
  IN IF file_path \in DOMAIN fs /\ Len(fs[file_path]) > 0 /\ fs[file_path][1] # header
     THEN [file_path |-> unique_file_name(fs), new_file |-> FALSE, error |-> FALSE]
     ELSE [file_path |-> file_path, new_file |-> new_file,
           error |-> file_path \in DOMAIN fs /\ Len(fs[file_path]) = 0]

\* post_strategy, lines 103-115: where the record goes and whether a header
\* is due.  Reading the header of an empty file raises (pandas'
\* EmptyDataError).
append_target(fs, listing, header) ==
  LET file_path == get_latest_results_file(listing)
      new_file == Len(listing) = 0
  IN IF file_path \in DOMAIN fs
     THEN IF Len(fs[file_path]) = 0
          THEN [file_path |-> file_path, new_file |-> new_file, error |-> TRUE]
          ELSE IF fs[file_path][1] # header
               THEN [file_path |-> unique_file_name(fs), new_file |-> TRUE,
                     error |-> FALSE]
               ELSE [file_path |-> file_path, new_file |-> new_file, error |-> FALSE]
     ELSE [file_path |-> file_path, new_file |-> new_file, error |-> FALSE]

\* open(file_path, "a"): the file exists afterwards, empty if it was missing.
Opened(fs, file_path) ==
  IF file_path \in DOMAIN fs THEN fs
  ELSE [k \in DOMAIN fs \cup {file_path} |-> IF k = file_path THEN << >> ELSE fs[k]]

\* The lines one append hands to the csv writer (lines 122-126).
write_lines_no_header(new_file, header, row) == << row >>

write_lines(new_file, header, row) ==
  IF new_file THEN << header, row >> ELSE << row >>

\* The file opened in mode "w": the flush replaces what it held.
Flushed_truncating(fs, file_path, lines) == [fs EXCEPT ![file_path] = lines]

\* Closing the file flushes the buffered lines to its end.
Flushed(fs, file_path, lines) == [fs EXCEPT ![file_path] = @ \o lines]

\* One whole post_strategy on a quiescent directory, for some listing order.
AppendRecords(fs, keys, metrics) ==
  { LET t == append_target(fs, l, HeaderOf(keys, metrics))
    IN Flushed(Opened(fs, t.file_path), t.file_path,
               write_lines(t.new_file, HeaderOf(keys, metrics), RowOf(keys, metrics)))
    : l \in Listings(fs) }

(***************************************************************************)
(* Lookup: pre_strategy's scan of one file.                                *)
(***************************************************************************)
\* df_keys_only: the positions of the columns whose name does not start
\* with an upper-case letter.  Metric names all start upper-case, parameter
\* names lower-case.
MetricNames == {"End Value"} \cup {TaNames[i] : i \in DOMAIN TaNames}
                 \cup {DdNames[i] : i \in DOMAIN DdNames}

KeyColumns(header) == SelectSeq([i \in 1..Len(header) |-> i],
                                LAMBDA i : header[i] \notin MetricNames)

\* A comparison that looks at the first identifying column only.
keys_match_first_column(keys, header, line) ==
  LET cols == KeyColumns(header)
  IN /\ Len(cols) = Len(keys)
     /\ header[cols[1]] = keys[1][1]
     /\ PyEq(keys[1][2], Parse(line[cols[1]]))

\* this_run_keys.equals(row): same index, equal values.
keys_match(keys, header, line) ==
  LET cols == KeyColumns(header)
  IN /\ Len(cols) = Len(keys)
     /\ \A i \in 1..Len(cols) :
          /\ header[cols[i]] = keys[i][1]
          /\ PyEq(keys[i][2], Parse(line[cols[i]]))

\* The data lines of a file that match, in file order.
MatchingLines(keys, content) ==
  SelectSeq([i \in 1..(Len(content) - 1) |-> i + 1],
            LAMBDA n : keys_match(keys, content[1], content[n]))

\* df.loc[keys_match].iloc[0]: the first matching row, as read_csv read it.
ParsedRow(header, line) == [i \in 1..Len(line) |-> <<header[i], Parse(line[i])>>]


(***************************************************************************)
(* The sweep: state.                                                       *)
(***************************************************************************)
VARIABLES
  files,          \* the partition directory: file name -> lines
  dirExists,      \* whether the partition directory exists
  filelock,       \* whether filelock is held
  tasks,          \* iterstrats: the parameter set of each combination
  dooptimize,     \* cerebro._dooptimize (optstrategy was used)
  outcomeOf,      \* what the backtest of each max_trade_duration yields
  nextTask,       \* the next combination the pool hands to a worker
  pc,             \* where each worker is in runstrategies
  cur,            \* the combination each worker is running
  scan,           \* pre_strategy: the listed files not read yet
  target,         \* post_strategy: file_path and new_file
  done,           \* the result of each combination, once its worker returned
  progress,       \* tqdm's counter (results taken from the pool)
  cached_strats,  \* run's list of cached rows
  callbacks,      \* results handed to the optimisation callbacks
  state,          \* "running", "returned" or "raised": how run ended
  ret,            \* what run returned
  store0,         \* the directory as it was when run started
  ran,            \* the combinations whose backtest was executed
  appended,       \* the appends that completed: <<combination, file, row>>
  faults,         \* the combinations that raised so far
  listed,         \* pre_strategy: the directory as it was when listed
  datas,          \* whether cerebro.datas holds a data feed
  event_stop      \* cerebro._event_stop: a stop was requested

\* The partitions of the results directory, as a sequence of runs fills them.
VARIABLES
  partitions,     \* result path -> the rows stored under it
  served          \* what the last run's lookup returned

pathVars == << partitions, served >>

\* One instrument traded by TenXSqueeze over a replayed feed.
VARIABLES
  entry_order,    \* BaseStrategy.entry_order: 0 for None, else the order's ref
  tp_order,       \* BaseStrategy.tp_order
  sl_order,       \* BaseStrategy.sl_order
  in_position,    \* BaseStrategy.in_position
  entries,        \* BaseStrategy.entries
  exits,          \* BaseStrategy.exits
  trades,         \* BaseStrategy.trades: the TradeRecords
  tradehistory,   \* cerebro.p.tradehistory, set from params.logging
  book,           \* the broker's orders, by ref
  position,       \* the broker's position in the instrument
  baropen,        \* len(data) when the open trade was opened
  orderspending,  \* order notifications not delivered yet: <<ref, status>>
  tradespending,  \* trade notifications not delivered yet
  length,         \* len(self.datafeed): the bars so far
  tick,           \* the replayed tick within the bar
  turn            \* "broker" before the broker's step of a tick, else "strategy"

tradeVars == << entry_order, tp_order, sl_order, in_position, entries, exits, trades,
                tradehistory, book, position, baropen, orderspending, tradespending,
                length, tick, turn >>

\* One ticker traded by MTFB3, through the same broker.
VARIABLES
  ticker_status,    \* MTFB3.ticker_status[ticker]
  ticker_position,  \* MTFB3.ticker_position[ticker]
  entry_orders,     \* MTFB3.entry_orders[ticker]: the refs of the entries
  sl_orders,        \* MTFB3.sl_orders[ticker]: 0 for None, else a ref
  tp_orders         \* MTFB3.tp_orders[ticker]

mtfVars == << ticker_status, ticker_position, entry_orders, sl_orders, tp_orders >>

\* What TenXSqueeze.next reads of its indicators and parameters on one tick.
\* Prices are in tenths, as tp_atr_multiplier is.
VARIABLES
  ind,                \* the lines' values at index 0 (and momentum at -1)
  use_good_momentum   \* TenXSqueeze.params.use_good_momentum

\* The MomentumReversal indicator of TenXSqueeze and the trade it gates.
VARIABLES
  momentum,        \* MomentumReversal.l.momentum at 0, -1 and -2
  good_momentum,   \* MomentumReversal.l.good_momentum at 0 and -1
  forced_off,      \* MomentumReversal._force_off
  bar_ref,         \* MomentumReversal._bar_ref
  mom_len,         \* len(self): the bars delivered, the one developing included
  mom_tick,        \* the ticks replayed into the bar so far
  mom_turn,        \* who runs next on this tick: indicator, notify or strategy
  market,          \* flat, entering (entry submitted) or open (entry filled)
  closing_bar,     \* the bar of the last fill of a closing order, 0 for none
  crossed_later    \* since then, a later bar has seen momentum cross zero

momVars == << momentum, good_momentum, forced_off, bar_ref, mom_len, mom_tick, mom_turn,
              market, closing_bar, crossed_later >>

\* The trailing stop-loss of one TenXSqueeze trade, in the broker's hands.
VARIABLES
  trail_side,     \* flat, entering_long, entering_short, long or short
  trail_amount,   \* the order's trailamount, fixed when trail_order made it
  stop_level,     \* the order's trigger price
  last_close,     \* the close of the latest tick
  best_close      \* the best close since the order was made

trailVars == << trail_side, trail_amount, stop_level, last_close, best_close >>

\* One ticker of MTFB3 with the lines its transitions read.
VARIABLES
  signal_5m,      \* signals[ticker]["5m"].signal at 0, -1, ..., -5
  bar_5m,         \* the 5m bar's high and low, the signal's channel lines and in_kc
  sig_status,     \* ticker_status[ticker]
  sig_position,   \* ticker_position[ticker]
  sig_held,       \* the broker's position in the ticker
  sig_submitted,  \* the call of next has submitted an entry for the ticker
  sig_pair,       \* sl_orders[ticker] and tp_orders[ticker] are both not None
  sl_price,       \* sl_orders[ticker].created.price, 0 without a stop
  tp_price,       \* tp_orders[ticker].created.price, 0 without a target
  sig_turn        \* next (the bar is in, next is to run) or feed (next has run)

sigVars == << signal_5m, bar_5m, sig_status, sig_position, sig_held, sig_submitted,
              sig_pair, sl_price, tp_price, sig_turn >>

\* The tickers of one MTFB3 run and what a call of next does, in order.
VARIABLES
  loop_status,     \* ticker_status, by ticker
  loop_position,   \* ticker_position, by ticker
  loop_calls,      \* the latest call of next: its transitions and its orders, in order
  loop_turn        \* next or broker

loopVars == << loop_status, loop_position, loop_calls, loop_turn >>

signalVars == << ind, use_good_momentum, momVars, trailVars, sigVars, loopVars >>

\* What the steps of a sweep leave alone.
otherVars == << pathVars, tradeVars, mtfVars, signalVars >>

vars == << files, dirExists, filelock, tasks, dooptimize, outcomeOf, nextTask, pc,
           cur, scan, target, done, progress, cached_strats, callbacks, state, ret,
           store0, ran, appended, faults, listed, datas, event_stop, otherVars >>

\* The values of max_trade_duration: the ranges this sweep may be given and
\* the values earlier sweeps left rows for.
DurationRanges == {<<9>>, <<9, 14>>}
LoggingRanges == {<<FALSE>>, <<FALSE, TRUE>>}
EarlierDurations == {9, 20}
Durations == {9, 14, 20}

\* The caller is worker 0; the pool's workers are 1..MaxCpus.
Workers == 0..MaxCpus

\* The parameter set of one combination.
ParamSet(logging, save_results, duration) ==
  [DefaultParams EXCEPT !.logging = B(logging), !.save_results = B(save_results),
                        !.max_trade_duration = <<"int", duration>>]

\* itertools.product over the option ranges, the first option slowest.
Product(loggings, save_results, durations) ==
  [i \in 1..(Len(loggings) * Len(durations)) |->
     ParamSet(loggings[((i - 1) \div Len(durations)) + 1], save_results,
              durations[((i - 1) % Len(durations)) + 1])]

EmptyDir == [k \in {} |-> << >>]

MetricsOf(oc, p) == compact_analysis(oc[p.max_trade_duration[2]])

RECURSIVE PreStores(_, _)
\* The directories that up to k earlier appends leave behind.
PreStores(k, oc) ==
  IF k = 0 THEN {EmptyDir}
  ELSE LET before == PreStores(k - 1, oc)
       IN before \cup
          UNION { AppendRecords(fs, get_id_keys(ParamSet(TRUE, TRUE, d)),
                                MetricsOf(oc, ParamSet(TRUE, TRUE, d)))
                  : fs \in before, d \in EarlierDurations }

\* No run has resolved a partition yet.
NoPartitions == [k \in {} |-> {}]
PathParked ==
  /\ partitions = NoPartitions
  /\ served = [to |-> "", from |-> ""]

\* The strategy as BaseStrategy.__init__ leaves it, before the first bar.
StrategyInit ==
  /\ entry_order = 0
  /\ tp_order = 0
  /\ sl_order = 0
  /\ in_position = FALSE
  /\ entries = << >>
  /\ exits = << >>
  /\ trades = << >>
  /\ book = << >>
  /\ position = 0
  /\ baropen = 0
  /\ orderspending = << >>
  /\ tradespending = << >>
  /\ length = 0
  /\ tick = 0
  /\ turn = "broker"

\* No bar is traded while a sweep or a sequence of runs is looked at.
TradeParked == StrategyInit /\ tradehistory = TRUE

\* MTFB3's status of a ticker.
TickerStatus ==
  [Neutral |-> 0, BuildLong |-> 1, BuildShort |-> 2, HoldLong |-> 3, HoldShort |-> 4]

\* The ticker as MTFB3.__init__'s defaultdicts give it.
MtfParked ==
  /\ ticker_status = TickerStatus.Neutral
  /\ ticker_position = 0
  /\ entry_orders = << >>
  /\ sl_orders = 0
  /\ tp_orders = 0

\* The indicators before the first bar, the parameter at its default.
NoSignal ==
  [squeeze_status |-> 3, good_momentum |-> 0, d_up |-> FALSE, d_down |-> FALSE,
   momentum |-> 0, momentum_prev |-> 0, close |-> 0, price |-> 0, atr |-> 0]

IndParked ==
  /\ ind = NoSignal
  /\ use_good_momentum = (DefaultParams.use_good_momentum[2] = 1)

\* MomentumReversal.__init__, before the first bar.
MomStart ==
  /\ good_momentum = << 0, 0 >>
  /\ forced_off = FALSE
  /\ bar_ref = -1
  /\ mom_len = 0
  /\ mom_tick = 0
  /\ mom_turn = "indicator"
  /\ market = "flat"
  /\ closing_bar = 0
  /\ crossed_later = FALSE

MomParked == MomStart /\ momentum = << 0, 0, 0 >>

\* No stop-loss order exists.
TrailParked ==
  /\ trail_side = "flat"
  /\ trail_amount = 0
  /\ stop_level = 0
  /\ last_close = 0
  /\ best_close = 0

\* A bar that touches nothing, between the channel lines of the signal.
QuietBar ==
  [high |-> 3, low |-> 3, lkc_u |-> 5, lkc_l |-> 1, mkc_u |-> 4, mkc_l |-> 2,
   in_kc |-> FALSE]

\* MTFB3.__init__ for the ticker, before its first bar.
SigParked ==
  /\ signal_5m = << 0, 0, 0, 0, 0, 0 >>
  /\ bar_5m = QuietBar
  /\ sig_status = TickerStatus.Neutral
  /\ sig_position = 0
  /\ sig_held = 0
  /\ sig_submitted = FALSE
  /\ sig_pair = FALSE
  /\ sl_price = 0
  /\ tp_price = 0
  /\ sig_turn = "feed"

\* self.tickers.keys(), in the order of the data feeds.
Tickers == << "A", "B" >>

\* MTFB3.__init__ for every ticker.
LoopParked ==
  /\ loop_status = [t \in DOMAIN Tickers |-> TickerStatus.Neutral]
  /\ loop_position = [t \in DOMAIN Tickers |-> 0]
  /\ loop_calls = << >>
  /\ loop_turn = "next"

SignalParked == IndParked /\ MomParked /\ TrailParked /\ SigParked /\ LoopParked

NoResult == <<"none">>
Raised == <<"exc">>
ResultList(items) == <<"list", items>>

Init ==
  /\ outcomeOf \in [Durations -> Outcomes]
  /\ files \in PreStores(MaxPre, outcomeOf)
  /\ dirExists = (DOMAIN files # {})
  /\ filelock = FALSE
  /\ \E loggings \in LoggingRanges,
        durations \in DurationRanges,
        save_results \in BOOLEAN :
       /\ \/ Len(loggings) * Len(durations) <= MaxCombos
          \/ /\ ~save_results /\ files = EmptyDir
             /\ Len(loggings) * Len(durations) <= MaxUnsaved
       /\ tasks = Product(loggings, save_results, durations)
       /\ dooptimize \in (IF Len(loggings) * Len(durations) > 1
                          THEN {TRUE} ELSE BOOLEAN)
  /\ nextTask = 1
  /\ pc = [w \in Workers |-> "idle"]
  /\ cur = [w \in Workers |-> 0]
  /\ scan = [w \in Workers |-> {}]
  /\ target = [w \in Workers |-> [file_path |-> "", new_file |-> FALSE]]
  /\ done = [i \in 1..Len(tasks) |-> NoResult]
  /\ progress = 0
  /\ cached_strats = << >>
  /\ callbacks = << >>
  /\ state = "running"
  /\ ret = << >>
  /\ store0 = files
  /\ ran = {}
  /\ appended = << >>
  /\ faults = 0
  /\ listed = [w \in Workers |-> EmptyDir]
  /\ datas \in BOOLEAN
  /\ event_stop = FALSE
  /\ PathParked
  /\ TradeParked
  /\ MtfParked /\ SignalParked


(***************************************************************************)
(* The sweep: one combination in a worker (Cerebro.__call__ ->             *)
(* runstrategies).                                                         *)
(***************************************************************************)
\* save_results taken as set whatever the parameter says.
save_results_always(i) == TRUE

save_results(i) == tasks[i].save_results = B(TRUE)
KeysOf(i) == get_id_keys(tasks[i])

\* What constructing the strategy can do: succeed, raise StrategySkipError,
\* raise anything else.
Constructions == {"ok", "skip", "raise"}

Deliver(i, r) == done' = [done EXCEPT ![i] = r]

\* run, line 240: without optimisation the caller runs the one strategy
\* itself; with it (maxcpus is 14) the pool's workers do.
\* The pool gives the combination to an idle worker: the workers being
\* alike, to the first idle one.
\* Any worker, the caller included, may take the next combination.
MayStart_any_worker(w) == datas

\* The check of self.datas left out.
MayStart_without_datas(w) ==
  IF dooptimize THEN w > 0 /\ \A v \in 1..(w - 1) : pc[v] # "idle"
  ELSE w = 0 /\ state = "running"

MayStart(w) ==
  /\ datas
  /\ IF dooptimize THEN w > 0 /\ \A v \in 1..(w - 1) : pc[v] # "idle"
     ELSE w = 0 /\ state = "running"

\* Lines 340-357 up to the listing of pre_strategy (lines 73-79).
Start(w) ==
  /\ pc[w] = "idle"
  /\ nextTask <= Len(tasks)
  /\ MayStart(w)
  /\ nextTask' = nextTask + 1
  /\ cur' = [cur EXCEPT ![w] = nextTask]
  /\ \E c \in Constructions :
       IF c = "ok"
       THEN /\ UNCHANGED << done, faults >>
            /\ IF save_results(nextTask)
               THEN /\ dirExists' = TRUE
                    /\ scan' = [scan EXCEPT ![w] = DOMAIN files]
                    /\ listed' = [listed EXCEPT ![w] = files]
                    /\ pc' = [pc EXCEPT ![w] = "pre"]
               ELSE /\ pc' = [pc EXCEPT ![w] = "run"]
                    /\ UNCHANGED << dirExists, scan, listed >>
       ELSE /\ faults < MaxFaults
            /\ faults' = faults + 1
            /\ Deliver(nextTask, IF c = "skip" THEN ResultList(<< >>) ELSE Raised)
            /\ UNCHANGED << pc, dirExists, scan, listed >>
  /\ UNCHANGED << files, filelock, tasks, dooptimize, outcomeOf, target, progress,
                  cached_strats, callbacks, state, ret, store0, ran, appended >>
  /\ UNCHANGED << datas, event_stop >>
  /\ UNCHANGED otherVars

\* pre_strategy, lines 80-90: the next listed file is read and searched.
\* Reading an empty file raises (pandas' EmptyDataError).
PreRead(w) ==
  /\ pc[w] = "pre"
  /\ \E f \in scan[w] :
       LET content == files[f]
           hits == MatchingLines(KeysOf(cur[w]), content)
       IN IF Len(content) = 0
          THEN /\ Deliver(cur[w], Raised)
               /\ pc' = [pc EXCEPT ![w] = "idle"]
               /\ scan' = [scan EXCEPT ![w] = {}]
               /\ listed' = [listed EXCEPT ![w] = EmptyDir]
          ELSE IF Len(hits) > 0
          THEN /\ Deliver(cur[w],
                    ResultList(<< <<"row", ParsedRow(content[1], content[hits[1]])>> >>))
               /\ pc' = [pc EXCEPT ![w] = "idle"]
               /\ scan' = [scan EXCEPT ![w] = {}]
               /\ listed' = [listed EXCEPT ![w] = EmptyDir]
          ELSE /\ scan' = [scan EXCEPT ![w] = @ \ {f}]
               /\ UNCHANGED << pc, done, listed >>
  /\ UNCHANGED << files, dirExists, filelock, tasks, dooptimize, outcomeOf, nextTask,
                  cur, target, progress, cached_strats, callbacks, state, ret, store0,
                  ran, appended, faults >>
  /\ UNCHANGED << datas, event_stop >>
  /\ UNCHANGED otherVars

\* pre_strategy, line 92: no listed file had a matching row.
PreMiss(w) ==
  /\ pc[w] = "pre"
  /\ scan[w] = {}
  /\ pc' = [pc EXCEPT ![w] = "run"]
  /\ listed' = [listed EXCEPT ![w] = EmptyDir]
  /\ UNCHANGED << files, dirExists, filelock, tasks, dooptimize, outcomeOf, nextTask,
                  cur, scan, target, done, progress, cached_strats, callbacks, state,
                  ret, store0, ran, appended, faults >>
  /\ UNCHANGED << datas, event_stop >>
  /\ UNCHANGED otherVars

\* Lines 365-432: the backtest itself, which finishes or raises.
Backtest(w) ==
  /\ pc[w] = "run"
  /\ \E ok \in BOOLEAN :
       IF ok
       THEN /\ ran' = ran \cup {cur[w]}
            /\ pc' = [pc EXCEPT ![w] = IF save_results(cur[w]) THEN "post" ELSE "ret"]
            /\ UNCHANGED << done, faults >>
       ELSE /\ faults < MaxFaults
            /\ faults' = faults + 1
            /\ ran' = ran \cup {cur[w]}
            /\ pc' = [pc EXCEPT ![w] = "idle"]
            /\ Deliver(cur[w], Raised)
  /\ UNCHANGED << files, dirExists, filelock, tasks, dooptimize, outcomeOf, nextTask,
                  cur, scan, target, progress, cached_strats, callbacks, state, ret,
                  store0, appended,
                  listed >>
  /\ UNCHANGED << datas, event_stop >>
  /\ UNCHANGED otherVars

\* filelock taken without waiting for it.
acquire_unguarded(lock) == TRUE

\* with filelock: a worker enters when the lock is free.
acquire(lock) == ~lock

\* post_strategy, lines 100-115: the lock is taken, the directory listed, the
\* target file chosen.
Lock(w) ==
  /\ pc[w] = "post"
  /\ acquire(filelock)
  /\ \E listing \in Listings(files) :
       LET metrics == MetricsOf(outcomeOf, tasks[cur[w]])
           t == append_target(files, listing, HeaderOf(KeysOf(cur[w]), metrics))
       IN IF t.error
          THEN /\ filelock' = FALSE
               /\ Deliver(cur[w], Raised)
               /\ pc' = [pc EXCEPT ![w] = "idle"]
               /\ UNCHANGED target
          ELSE /\ filelock' = TRUE
               /\ target' = [target EXCEPT ![w] =
                               [file_path |-> t.file_path, new_file |-> t.new_file]]
               /\ pc' = [pc EXCEPT ![w] = "open"]
               /\ UNCHANGED done
  /\ dirExists' = TRUE
  /\ UNCHANGED << files, tasks, dooptimize, outcomeOf, nextTask, cur, scan, progress,
                  cached_strats, callbacks, state, ret, store0, ran, appended, faults,
                  listed >>
  /\ UNCHANGED << datas, event_stop >>
  /\ UNCHANGED otherVars

\* Line 118: open(file_path, "a").
Open(w) ==
  /\ pc[w] = "open"
  /\ files' = Opened(files, target[w].file_path)
  /\ pc' = [pc EXCEPT ![w] = "close"]
  /\ UNCHANGED << dirExists, filelock, tasks, dooptimize, outcomeOf, nextTask, cur,
                  scan, target, done, progress, cached_strats, callbacks, state, ret,
                  store0, ran, appended, faults,
                  listed >>
  /\ UNCHANGED << datas, event_stop >>
  /\ UNCHANGED otherVars

\* Lines 119-126 and the end of both with blocks: the header (for a new
\* file) and the row reach the file when it is closed, then the lock is
\* released.
Close(w) ==
  /\ pc[w] = "close"
  /\ LET metrics == MetricsOf(outcomeOf, tasks[cur[w]])
         header == HeaderOf(KeysOf(cur[w]), metrics)
         row == RowOf(KeysOf(cur[w]), metrics)
     IN /\ files' = Flushed(files, target[w].file_path,
                            write_lines(target[w].new_file, header, row))
        /\ appended' = Append(appended, << cur[w], target[w].file_path, row >>)
  /\ filelock' = FALSE
  /\ pc' = [pc EXCEPT ![w] = "ret"]
  /\ UNCHANGED << dirExists, tasks, dooptimize, outcomeOf, nextTask, cur, scan, target,
                  done, progress, cached_strats, callbacks, state, ret, store0, ran, faults,
                  listed >>
  /\ UNCHANGED << datas, event_stop >>
  /\ UNCHANGED otherVars

\* Line 465: runstrategies returns the finished strategy.
Return(w) ==
  /\ pc[w] = "ret"
  /\ Deliver(cur[w], ResultList(<< <<"strat", cur[w]>> >>))
  /\ pc' = [pc EXCEPT ![w] = "idle"]
  /\ UNCHANGED << files, dirExists, filelock, tasks, dooptimize, outcomeOf, nextTask,
                  cur, scan, target, progress, cached_strats, callbacks, state, ret,
                  store0, ran, appended, faults,
                  listed >>
  /\ UNCHANGED << datas, event_stop >>
  /\ UNCHANGED otherVars

(***************************************************************************)
(* The sweep: the caller (ProgressCerebro.run).                            *)
(***************************************************************************)
\* The imap loop with progress.update(1) under the else branch only.
Take_hits_uncounted ==
  /\ dooptimize
  /\ state = "running"
  /\ progress < Len(tasks)
  /\ done[progress + 1] # NoResult
  /\ LET r == done[progress + 1]
     IN IF r = Raised \/ r[2] = << >>
        THEN /\ state' = "raised"
             /\ UNCHANGED << progress, cached_strats, callbacks >>
        ELSE /\ state' = state
             /\ IF r[2][1][1] = "row"
                THEN /\ cached_strats' = Append(cached_strats, r[2][1])
                     /\ UNCHANGED << callbacks, progress >>
                ELSE /\ callbacks' = Append(callbacks, r[2])
                     /\ progress' = progress + 1
                     /\ UNCHANGED cached_strats
  /\ UNCHANGED << files, dirExists, filelock, tasks, dooptimize, outcomeOf, nextTask,
                  pc, cur, scan, target, done, ret, store0, ran, appended, faults,
                  listed, datas, event_stop >>
  /\ UNCHANGED otherVars

\* Lines 263-275: the next result of pool.imap, in the order of the
\* combinations.  A worker's exception is raised again here; r[0] of an
\* empty list raises IndexError.
Take ==
  /\ dooptimize
  /\ state = "running"
  /\ progress < Len(tasks)
  /\ done[progress + 1] # NoResult
  /\ LET r == done[progress + 1]
     IN IF r = Raised \/ r[2] = << >>
        THEN /\ state' = "raised"
             /\ UNCHANGED << progress, cached_strats, callbacks >>
        ELSE /\ progress' = progress + 1
             /\ state' = state
             /\ IF r[2][1][1] = "row"
                THEN /\ cached_strats' = Append(cached_strats, r[2][1])
                     /\ UNCHANGED callbacks
                ELSE /\ callbacks' = Append(callbacks, r[2])
                     /\ UNCHANGED cached_strats
  /\ UNCHANGED << files, dirExists, filelock, tasks, dooptimize, outcomeOf, nextTask,
                  pc, cur, scan, target, done, ret, store0, ran, appended, faults,
                  listed >>
  /\ UNCHANGED << datas, event_stop >>
  /\ UNCHANGED otherVars

\* Lines 277-283: every result was taken; run returns the cached rows.
Finish ==
  /\ dooptimize
  /\ state = "running"
  /\ progress = Len(tasks)
  /\ state' = "returned"
  /\ ret' = cached_strats
  /\ UNCHANGED << files, dirExists, filelock, tasks, dooptimize, outcomeOf, nextTask,
                  pc, cur, scan, target, done, progress, cached_strats, callbacks,
                  store0, ran, appended, faults,
                  listed >>
  /\ UNCHANGED << datas, event_stop >>
  /\ UNCHANGED otherVars

\* Lines 243-245 and 285-287: without optimisation run returns what
\* runstrategies returned for the one strategy, or raises what it raised.
FinishSingle ==
  /\ ~dooptimize
  /\ state = "running"
  /\ done[1] # NoResult
  /\ IF done[1] = Raised
     THEN state' = "raised" /\ UNCHANGED ret
     ELSE state' = "returned" /\ ret' = done[1][2]
  /\ UNCHANGED << files, dirExists, filelock, tasks, dooptimize, outcomeOf, nextTask,
                  pc, cur, scan, target, done, progress, cached_strats, callbacks,
                  store0, ran, appended, faults,
                  listed >>
  /\ UNCHANGED << datas, event_stop >>
  /\ UNCHANGED otherVars

\* Lines 145-146: without a data feed run returns the empty list at once.
Bail ==
  /\ ~datas
  /\ state = "running"
  /\ state' = "returned"
  /\ ret' = << >>
  /\ UNCHANGED << files, dirExists, filelock, tasks, dooptimize, outcomeOf, nextTask,
                  pc, cur, scan, target, done, progress, cached_strats, callbacks,
                  store0, ran, appended, faults, listed, datas, event_stop >>
  /\ UNCHANGED otherVars

\* Cerebro.runstop(), called while run is under way: the flag line 143
\* cleared is set.
RunStop ==
  /\ datas
  /\ state = "running"
  /\ ~event_stop
  /\ event_stop' = TRUE
  /\ UNCHANGED << files, dirExists, filelock, tasks, dooptimize, outcomeOf, nextTask,
                  pc, cur, scan, target, done, progress, cached_strats, callbacks,
                  state, ret, store0, ran, appended, faults, listed, datas >>
  /\ UNCHANGED otherVars

\* Driver.run, lines 178-183: a frame of the rows if the first element is a
\* row, else the first element, else the empty list.
DriverReturn(r) ==
  IF Len(r) > 0 /\ r[1][1] = "row" THEN <<"frame", r>>
  ELSE IF Len(r) > 0 THEN r[1] ELSE <<"list", r>>

Next ==
  \/ \E w \in Workers : Start(w)
  \/ \E w \in Workers : PreRead(w)
  \/ \E w \in Workers : PreMiss(w)
  \/ \E w \in Workers : Backtest(w)
  \/ \E w \in Workers : Lock(w)
  \/ \E w \in Workers : Open(w)
  \/ \E w \in Workers : Close(w)
  \/ \E w \in Workers : Return(w)
  \/ Take
  \/ Finish
  \/ FinishSingle
  \/ Bail

Spec == Init /\ [][Next]_vars

\* A multi-valued sweep during which a stop may be requested.
StopInit == Init /\ datas /\ dooptimize

StopNext ==
  \/ \E w \in Workers : Start(w)
  \/ \E w \in Workers : PreRead(w)
  \/ \E w \in Workers : PreMiss(w)
  \/ \E w \in Workers : Backtest(w)
  \/ \E w \in Workers : Lock(w)
  \/ \E w \in Workers : Open(w)
  \/ \E w \in Workers : Close(w)
  \/ \E w \in Workers : Return(w)
  \/ Take
  \/ Finish
  \/ RunStop

StopSpec == StopInit /\ [][StopNext]_vars


(***************************************************************************)
(* Partitions: get_result_path over a sequence of runs.                    *)
(***************************************************************************)
sweepVars == << files, dirExists, filelock, tasks, dooptimize, outcomeOf, nextTask, pc,
                cur, scan, target, done, progress, cached_strats, callbacks, state,
                ret, store0, ran, appended, faults, listed, datas, event_stop >>

\* Driver's symbol argument.
Instruments == {"BTC", "ETH"}

\* The open times of the bars from first to last, one time unit apart.
OpenTimes(first, last) == [k \in 1..(last - first + 1) |-> first + k - 1]

\* df.open_time.diff().median() of evenly spaced bars.
MedianDiff(open_time) == open_time[2] - open_time[1]

\* util.fix_dt_for_backtrader: every open time moved on by the median step.
fix_dt_for_backtrader(open_time) ==
  [k \in DOMAIN open_time |-> open_time[k] + MedianDiff(open_time)]

\* util.undo_backtrader_dt: every open time moved back by the median step.
undo_backtrader_dt(open_time) ==
  [k \in DOMAIN open_time |-> open_time[k] - MedianDiff(open_time)]

\* The feed Driver.run gives cerebro for a symbol and a range of bars.
Feed(symbol, first, last) ==
  [name |-> "binance_" \o symbol \o "_5m)",
   open_time |-> fix_dt_for_backtrader(OpenTimes(first, last))]

Feeds ==
  { Feed(sym, b[1], b[2]) :
      sym \in Instruments,
      b \in { c \in (1..MaxBar) \X (1..MaxBar) : c[1] < c[2] } }

\* A strategy instance: the class's strategy_name and its params.
Strategy(p) == [strategy_name |-> "TenXSqueeze_V1.0", params |-> p]

\* A path that names the parameters as well.
get_result_path_by_params(strategy, feed) ==
  << "results",
     "strategy_" \o strategy.strategy_name,
     "start_" \o IntStr(undo_backtrader_dt(feed.open_time)[1]),
     "end_" \o IntStr(feed.open_time[Len(feed.open_time)]),
     "max_trade_duration_" \o IntStr(strategy.params.max_trade_duration[2]) >>

\* ProgressCerebro.get_result_path: root/10xsqueeze/results, then one
\* directory "<key>_<value>" for each of strategy, start and end.
get_result_path(strategy, feed) ==
  << "results",
     "strategy_" \o strategy.strategy_name,
     "start_" \o IntStr(undo_backtrader_dt(feed.open_time)[1]),
     "end_" \o IntStr(feed.open_time[Len(feed.open_time)]) >>

\* The rows stored under a path.
RowsAt(path) == IF path \in DOMAIN partitions THEN partitions[path] ELSE {}

\* The sweep's own state while only paths are looked at.
SweepParked ==
  /\ outcomeOf = [d \in Durations |-> [endValue |-> 10, trades |-> 0]]
  /\ files = EmptyDir
  /\ dirExists = FALSE
  /\ filelock = FALSE
  /\ tasks = << >>
  /\ dooptimize = FALSE
  /\ nextTask = 1
  /\ pc = [w \in Workers |-> "idle"]
  /\ cur = [w \in Workers |-> 0]
  /\ scan = [w \in Workers |-> {}]
  /\ target = [w \in Workers |-> [file_path |-> "", new_file |-> FALSE]]
  /\ done = << >>
  /\ progress = 0
  /\ cached_strats = << >>
  /\ callbacks = << >>
  /\ state = "returned"
  /\ ret = << >>
  /\ store0 = EmptyDir
  /\ ran = {}
  /\ appended = << >>
  /\ faults = 0
  /\ listed = [w \in Workers |-> EmptyDir]
  /\ datas = TRUE
  /\ event_stop = FALSE

PathInit == SweepParked /\ PathParked /\ TradeParked /\ MtfParked /\ SignalParked

\* One run whose lookup in the partition of its path finds a row with its
\* fingerprint (pre_strategy): that row is returned.
CachedRun ==
  /\ \E feed \in Feeds, d \in Durations :
       LET strategy == Strategy(ParamSet(FALSE, TRUE, d))
           path == get_result_path(strategy, feed)
       IN \E row \in RowsAt(path) :
            /\ row.keys = get_id_keys(strategy.params)
            /\ served' = [to |-> feed.name, from |-> row.feed.name]
  /\ UNCHANGED << partitions, sweepVars, tradeVars, mtfVars, signalVars >>

\* One run whose lookup finds no such row: the backtest runs and its row is
\* stored under the path (post_strategy).
FreshRun ==
  /\ \E feed \in Feeds, d \in Durations :
       LET strategy == Strategy(ParamSet(FALSE, TRUE, d))
           path == get_result_path(strategy, feed)
           row == [keys |-> get_id_keys(strategy.params), feed |-> feed]
       IN /\ \A r \in RowsAt(path) : r.keys # row.keys
          /\ Cardinality(UNION {partitions[k] : k \in DOMAIN partitions}) < MaxRows
          /\ partitions' = [k \in DOMAIN partitions \cup {path} |->
                              IF k = path THEN RowsAt(path) \cup {row}
                              ELSE partitions[k]]
          /\ served' = [to |-> feed.name, from |-> ""]
  /\ UNCHANGED << sweepVars, tradeVars, mtfVars, signalVars >>

PathNext == CachedRun \/ FreshRun

PathSpec == PathInit /\ [][PathNext]_vars

(***************************************************************************)
(* One instrument: TenXSqueeze.next, BaseStrategy.notify_order and         *)
(* notify_trade, tick by tick.  The broker is backtrader's: a market       *)
(* order executes on the tick after the one it was created on, a bracket   *)
(* child is live once its parent has executed, an order that executes      *)
(* cancels the orders of its oco group, and every tick's notifications     *)
(* reach the strategy, orders first, before next is called.                *)
(***************************************************************************)
\* params.max_trade_duration, at its declared default.
max_trade_duration == DefaultParams.max_trade_duration[2]

\* An order of size 1 the strategy creates: where next made it, the trade it
\* belongs to, its side, its execution type, its bracket parent and its oco
\* order.  size is the order's signed size, negative for a sell.
Order(made, trade, isbuy, exectype, parent, oco) ==
  [made |-> made, trade |-> trade, isbuy |-> isbuy, exectype |-> exectype,
   parent |-> parent, oco |-> oco, status |-> "Accepted",
   size |-> IF isbuy THEN 1 ELSE -1]

\* The strategy's fields notify_order reads and writes.
Fields ==
  [entry_order |-> entry_order, tp_order |-> tp_order, sl_order |-> sl_order,
   in_position |-> in_position, entries |-> entries, exits |-> exits]

\* notify_order without its branch for Canceled, Margin and Rejected.
notify_order_completed_only(s, order, status, isbuy, bar) ==
  IF status = "Completed" /\ order = s.entry_order
  THEN [s EXCEPT !.entries = Append(@, [direction |-> IF isbuy THEN "long" ELSE "short",
                                        bar_len |-> bar]),
                 !.in_position = TRUE,
                 !.entry_order = 0]
  ELSE IF status = "Completed" /\ order \in {s.tp_order, s.sl_order}
  THEN [s EXCEPT !.exits = Append(@, [direction |-> IF isbuy THEN "short" ELSE "long",
                                      type |-> IF order = s.tp_order THEN "tp" ELSE "sl"]),
                 !.in_position = FALSE,
                 !.tp_order = IF order = s.tp_order THEN 0 ELSE @,
                 !.sl_order = IF order # s.tp_order /\ order = s.sl_order THEN 0 ELSE @]
  ELSE s

\* notify_order recording a filled take-profit as an exit, but not a filled
\* stop-loss.
notify_order_target_exits_only(s, order, status, isbuy, bar) ==
  IF status = "Completed" /\ order # s.entry_order /\ order # s.tp_order
  THEN s
  ELSE notify_order_completed_only(s, order, status, isbuy, bar)

\* notify_order emptying every slot on Canceled, Margin and Rejected.
notify_order_clears_every_slot(s, order, status, isbuy, bar) ==
  IF status \in {"Canceled", "Margin", "Rejected"}
  THEN [s EXCEPT !.entry_order = 0, !.tp_order = 0, !.sl_order = 0]
  ELSE notify_order_completed_only(s, order, status, isbuy, bar)

\* BaseStrategy.notify_order (TenXSqueeze.notify_order adds only the reset
\* of an indicator).
notify_order(s, order, status, isbuy, bar) ==
  IF status \in {"Submitted", "Accepted"} THEN s
  ELSE IF status = "Completed"
  THEN IF order = s.entry_order
       THEN [s EXCEPT !.entries = Append(@, [direction |-> IF isbuy THEN "long" ELSE "short",
                                             bar_len |-> bar]),
                      !.in_position = TRUE,
                      !.entry_order = 0]
       ELSE IF order \in {s.tp_order, s.sl_order}
       THEN [s EXCEPT !.exits = Append(@, [direction |-> IF isbuy THEN "short" ELSE "long",
                                           type |-> IF order = s.tp_order THEN "tp" ELSE "sl"]),
                      !.in_position = FALSE,
                      !.tp_order = IF order = s.tp_order THEN 0 ELSE @,
                      !.sl_order = IF order # s.tp_order /\ order = s.sl_order THEN 0 ELSE @]
       ELSE s
  ELSE IF order = s.entry_order THEN [s EXCEPT !.entry_order = 0]
  ELSE IF order = s.tp_order THEN [s EXCEPT !.tp_order = 0]
  ELSE IF order = s.sl_order THEN [s EXCEPT !.sl_order = 0]
  ELSE s

\* BaseStrategy.notify_trade: the TradeRecord of a closed trade.
notify_trade(records, trade) ==
  IF trade.isclosed /\ tradehistory
  THEN Append(records, [direction |-> trade.direction, bar_duration |-> trade.barlen])
  ELSE records

\* The broker may execute an order that is accepted and whose parent, if it
\* has one, has executed.
CanExecute(bk, o) ==
  /\ bk[o].status = "Accepted"
  /\ bk[o].parent = 0 \/ bk[bk[o].parent].status = "Completed"

OcoGroup(bk, o) == IF bk[o].oco = 0 THEN o ELSE bk[o].oco

\* The accepted orders an execution of o cancels: its oco group and the
\* other children of its parent.
Siblings(bk, o) ==
  { q \in DOMAIN bk \ {o} :
      /\ bk[q].status = "Accepted"
      /\ \/ OcoGroup(bk, q) = OcoGroup(bk, o)
         \/ bk[o].parent # 0 /\ bk[q].parent = bk[o].parent }

\* The accepted children of a bracket parent.
Children(bk, o) == { q \in DOMAIN bk : bk[q].parent = o /\ bk[q].status = "Accepted" }

RECURSIVE NotesOf(_, _)
\* One notification for each order of a set, in the order of their refs.
NotesOf(os, status) ==
  IF os = {} THEN << >>
  ELSE LET m == CHOOSE x \in os : \A y \in os : x <= y
       IN << <<m, status>> >> \o NotesOf(os \ {m}, status)

\* The broker executes order o on a tick of bar number bar.
Execute(w, o, bar) ==
  LET gone == Siblings(w.book, o)
      pos == w.position + w.book[o].size
  IN [book |-> [q \in DOMAIN w.book |->
                  IF q = o THEN [w.book[q] EXCEPT !.status = "Completed"]
                  ELSE IF q \in gone THEN [w.book[q] EXCEPT !.status = "Canceled"]
                  ELSE w.book[q]],
      position |-> pos,
      baropen |-> IF w.position = 0 THEN bar ELSE w.baropen,
      orders |-> w.orders \o << <<o, "Completed">> >> \o NotesOf(gone, "Canceled"),
      trades |-> Append(w.trades,
                   IF w.position = 0
                   THEN [isclosed |-> FALSE, barlen |-> 0,
                         direction |-> IF w.book[o].isbuy THEN "long" ELSE "short"]
                   ELSE [isclosed |-> pos = 0, barlen |-> bar - w.baropen,
                         direction |-> IF w.position > 0 THEN "long" ELSE "short"])]

\* The broker refuses entry o for lack of cash and cancels its children.
Reject(w, o) ==
  LET gone == Children(w.book, o)
  IN [w EXCEPT !.book = [q \in DOMAIN w.book |->
                           IF q = o THEN [w.book[q] EXCEPT !.status = "Margin"]
                           ELSE IF q \in gone THEN [w.book[q] EXCEPT !.status = "Canceled"]
                           ELSE w.book[q]],
               !.orders = w.orders \o << <<o, "Margin">> >> \o NotesOf(gone, "Canceled")]

RECURSIVE Process(_, _, _, _, _)
\* The broker's pass over its orders from ref o on: a market order executes,
\* unless it is an entry that opens or adds to a position and cash is short
\* (margin); a stop or a limit executes when the tick's price reaches it
\* (hit).
Process(w, o, hit, margin, bar) ==
  IF o > Len(w.book) THEN w
  ELSE IF ~CanExecute(w.book, o) THEN Process(w, o + 1, hit, margin, bar)
  ELSE IF w.book[o].exectype = "Market"
  THEN IF w.book[o].made = "entry" /\ margin /\ w.position * w.book[o].size >= 0
       THEN Process(Reject(w, o), o + 1, hit, margin, bar)
       ELSE Process(Execute(w, o, bar), o + 1, hit, margin, bar)
  ELSE IF o \in hit THEN Process(Execute(w, o, bar), o + 1, hit, margin, bar)
  ELSE Process(w, o + 1, hit, margin, bar)

\* The number of the trade the next order belongs to.
TradeNo(bk) == Cardinality({ o \in DOMAIN bk : bk[o].made = "entry" })

\* One tick: the feed moves on and the broker passes over its orders.
BrokerNext ==
  /\ turn = "broker"
  /\ LET newbar == tick = 0 \/ tick = TicksPerBar
         bar == IF newbar THEN length + 1 ELSE length
     IN /\ bar <= MaxLen
        /\ length' = bar
        /\ tick' = IF newbar THEN 1 ELSE tick + 1
        /\ \E margin \in BOOLEAN,
              hit \in SUBSET { o \in DOMAIN book : /\ book[o].status = "Accepted"
                                                   /\ book[o].exectype = "StopTrail" } :
             LET w == Process([book |-> book, position |-> position, baropen |-> baropen,
                               orders |-> orderspending, trades |-> tradespending],
                              1, hit, margin, bar)
             IN /\ book' = w.book
                /\ position' = w.position
                /\ baropen' = w.baropen
                /\ orderspending' = w.orders
                /\ tradespending' = w.trades
  /\ turn' = "strategy"
  /\ UNCHANGED << entry_order, tp_order, sl_order, in_position, entries, exits, trades,
                  tradehistory >>
  /\ UNCHANGED << sweepVars, pathVars, mtfVars, signalVars >>

\* The strategy is told of one order.
NotifyOrder ==
  /\ turn = "strategy"
  /\ orderspending # << >>
  /\ LET note == Head(orderspending)
         s == notify_order(Fields, note[1], note[2], book[note[1]].isbuy, length)
     IN /\ entry_order' = s.entry_order
        /\ tp_order' = s.tp_order
        /\ sl_order' = s.sl_order
        /\ in_position' = s.in_position
        /\ entries' = s.entries
        /\ exits' = s.exits
  /\ orderspending' = Tail(orderspending)
  /\ UNCHANGED << trades, tradehistory, book, position, baropen, tradespending, length,
                  tick, turn >>
  /\ UNCHANGED << sweepVars, pathVars, mtfVars, signalVars >>

\* The strategy is told of one trade, once it has been told of the orders.
NotifyTrade ==
  /\ turn = "strategy"
  /\ orderspending = << >>
  /\ tradespending # << >>
  /\ trades' = notify_trade(trades, Head(tradespending))
  /\ tradespending' = Tail(tradespending)
  /\ UNCHANGED << entry_order, tp_order, sl_order, in_position, entries, exits,
                  tradehistory, book, position, baropen, orderspending, length, tick,
                  turn >>
  /\ UNCHANGED << sweepVars, pathVars, mtfVars, signalVars >>

\* The Submitted and the Accepted notification of each new order.
Submissions(refs) ==
  [i \in 1..(2 * Len(refs)) |->
     << refs[(i + 1) \div 2], IF i % 2 = 1 THEN "Submitted" ELSE "Accepted" >>]

\* An entry whose stop-loss is not its child.
Bracket_stop_unlinked(n, t, long) ==
  << Order("entry", t, long, "Market", 0, 0),
     Order("stop", t, ~long, "StopTrail", 0, 0) >>

\* The orders of an entry (refs n + 1 and n + 2): self.buy or self.sell with
\* transmit=False, then trail_order on the opposite side with parent the
\* entry.
Bracket(n, t, long) ==
  << Order("entry", t, long, "Market", 0, 0),
     Order("stop", t, ~long, "StopTrail", n + 1, 0) >>

\* The body of TenXSqueeze.next.  signal is what the squeeze, momentum and
\* direction indicators say ("long", "short" or "none"), atr_cross whether
\* the close is beyond the ATR target on the position's side, limit is
\* params.max_trade_duration.
Decide(signal, atr_cross, limit) ==
  IF entry_order # 0 \/ tp_order # 0
  THEN UNCHANGED << entry_order, tp_order, sl_order, book, orderspending >>
  ELSE IF position = 0
  THEN IF signal # "none" /\ Len(book) + 3 <= MaxOrders
       THEN LET n == Len(book)
                t == TradeNo(book) + 1
            IN /\ entry_order' = n + 1
               /\ sl_order' = n + 2
               /\ book' = book \o Bracket(n, t, signal = "long")
               /\ orderspending' = orderspending \o Submissions(<<n + 1, n + 2>>)
               /\ UNCHANGED tp_order
       ELSE UNCHANGED << entry_order, tp_order, sl_order, book, orderspending >>
  ELSE LET t == TradeNo(book)
           book1 == IF atr_cross
                    THEN Append(book, Order("target", t, position < 0, "StopTrail",
                                            0, sl_order))
                    ELSE book
           tp1 == IF atr_cross THEN Len(book1) ELSE 0
           due == /\ length - entries[Len(entries)].bar_len >= limit
                  /\ tp1 = 0
           cancels == due /\ sl_order # 0 /\ book1[sl_order].status = "Accepted"
           book2 == IF cancels THEN [book1 EXCEPT ![sl_order].status = "Canceled"]
                    ELSE book1
       IN /\ tp_order' = tp1
          /\ sl_order' = IF due THEN Len(book2) + 1 ELSE sl_order
          /\ book' = IF due
                     THEN Append(book2, Order("close", t, position < 0, "Market", 0, 0))
                     ELSE book2
          /\ orderspending' =
               orderspending
                 \o (IF atr_cross THEN Submissions(<<tp1>>) ELSE << >>)
                 \o (IF cancels THEN << <<sl_order, "Canceled">> >> ELSE << >>)
                 \o (IF due THEN Submissions(<<Len(book2) + 1>>) ELSE << >>)
          /\ UNCHANGED entry_order

\* TenXSqueeze.next on one tick, whatever the indicators say.
StrategyNext ==
  /\ turn = "strategy"
  /\ orderspending = << >>
  /\ tradespending = << >>
  /\ turn' = "broker"
  /\ \E signal \in {"long", "short", "none"}, atr_cross \in BOOLEAN :
       Decide(signal, atr_cross, max_trade_duration)
  /\ UNCHANGED << in_position, entries, exits, trades, tradehistory, position, baropen,
                  tradespending, length, tick >>
  /\ UNCHANGED << sweepVars, pathVars, mtfVars, signalVars >>

TradeInit ==
  /\ SweepParked
  /\ PathParked
  /\ StrategyInit
  /\ tradehistory \in BOOLEAN
  /\ MtfParked /\ SignalParked

TradeNext == BrokerNext \/ NotifyOrder \/ NotifyTrade \/ StrategyNext

TradeSpec == TradeInit /\ [][TradeNext]_vars

(***************************************************************************)
(* One ticker of MTFB3: next and notify_order, tick by tick, through the   *)
(* same broker.  The tickers of a run do not touch each other's entries:   *)
(* next and notify_order read and write ticker_status, ticker_position,    *)
(* entry_orders, sl_orders and tp_orders at the ticker's own key only.     *)
(***************************************************************************)
\* np.sign
\* A sign that knows no negative numbers.
Sign_of_positive(n) == IF n > 0 THEN 1 ELSE 0

Sign(n) == IF n > 0 THEN 1 ELSE IF n < 0 THEN -1 ELSE 0

BuildStatuses == {TickerStatus.BuildLong, TickerStatus.BuildShort}
HoldStatuses == {TickerStatus.HoldLong, TickerStatus.HoldShort}

\* The ticker's entries of the strategy's dictionaries.
Ticker ==
  [ticker_status |-> ticker_status, ticker_position |-> ticker_position,
   entry_orders |-> entry_orders, sl_orders |-> sl_orders, tp_orders |-> tp_orders]

\* MTFB3.neutral_state_transition; acquired tells whether the last six
\* values of the 5m signal are all above 0, all below 0, or neither.
neutral_state_transition(status, acquired) ==
  IF acquired = "above" THEN TickerStatus.BuildLong
  ELSE IF acquired = "below" THEN TickerStatus.BuildShort
  ELSE status

\* MTFB3.build_state_transition; broken is signal_break_condition for the
\* status's own side, reached is price_target_reached.
build_state_transition(status, held, broken, reached) ==
  LET has_position == held # 0
  IN IF ~has_position /\ status = TickerStatus.BuildLong /\ (broken \/ reached)
     THEN TickerStatus.Neutral
     ELSE IF ~has_position /\ status = TickerStatus.BuildShort /\ (broken \/ reached)
     THEN TickerStatus.Neutral
     ELSE IF has_position /\ status = TickerStatus.BuildLong /\ broken
     THEN TickerStatus.HoldLong
     ELSE IF has_position /\ status = TickerStatus.BuildShort /\ broken
     THEN TickerStatus.HoldShort
     ELSE status

\* MTFB3.notify_order; size is order.executed.size, which backtrader signs
\* as it signs the order's size (negative for a sell).
MTFB3_notify_order(s, order, status, isbuy, size) ==
  IF status \in {"Submitted", "Accepted"} THEN s
  ELSE IF status = "Completed"
  THEN LET told ==
             IF order = s.tp_orders
             THEN [s EXCEPT !.tp_orders = 0,
                            !.ticker_status = TickerStatus.Neutral,
                            !.ticker_position = @ + (IF isbuy THEN size ELSE -size)]
             ELSE IF order = s.sl_orders
             THEN [s EXCEPT !.sl_orders = 0,
                            !.ticker_status = TickerStatus.Neutral,
                            !.ticker_position = @ + (IF isbuy THEN size ELSE -size)]
             ELSE IF \E i \in DOMAIN s.entry_orders : s.entry_orders[i] = order
             THEN [s EXCEPT !.ticker_position = @ + (IF isbuy THEN 1 ELSE -1)]
             ELSE s
       IN IF told.ticker_position = 0 THEN [told EXCEPT !.entry_orders = << >>] ELSE told
  ELSE s

\* One tick of the ticker's feed: the broker passes over its orders.
MtfBroker ==
  /\ turn = "broker"
  /\ \E margin \in BOOLEAN,
        hit \in SUBSET { o \in DOMAIN book : /\ book[o].status = "Accepted"
                                             /\ book[o].exectype # "Market" } :
       LET w == Process([book |-> book, position |-> position, baropen |-> baropen,
                         orders |-> orderspending, trades |-> << >>],
                        1, hit, margin, 0)
       IN /\ book' = w.book
          /\ position' = w.position
          /\ orderspending' = w.orders
  /\ turn' = "strategy"
  /\ UNCHANGED << entry_order, tp_order, sl_order, in_position, entries, exits, trades,
                  tradehistory, baropen, tradespending, length, tick >>
  /\ UNCHANGED << sweepVars, pathVars, mtfVars, signalVars >>

\* The strategy is told of one order.
MtfNotify ==
  /\ turn = "strategy"
  /\ orderspending # << >>
  /\ LET note == Head(orderspending)
         s == MTFB3_notify_order(Ticker, note[1], note[2], book[note[1]].isbuy,
                                 book[note[1]].size)
     IN /\ ticker_status' = s.ticker_status
        /\ ticker_position' = s.ticker_position
        /\ entry_orders' = s.entry_orders
        /\ sl_orders' = s.sl_orders
        /\ tp_orders' = s.tp_orders
  /\ orderspending' = Tail(orderspending)
  /\ UNCHANGED << entry_order, tp_order, sl_order, in_position, entries, exits, trades,
                  tradehistory, book, position, baropen, tradespending, length, tick,
                  turn >>
  /\ UNCHANGED << sweepVars, pathVars, signalVars >>

\* MTFB3.next for the ticker: the transition of its status, then
\* build_position (update_sl_tp_prices moves prices only).  in_kc is the
\* signal's in_kc[0].
MtfNext ==
  /\ turn = "strategy"
  /\ orderspending = << >>
  /\ turn' = "broker"
  /\ \E acquired \in {"above", "below", "none"},
        broken \in BOOLEAN, reached \in BOOLEAN, in_kc \in BOOLEAN :
       IF ticker_status = TickerStatus.Neutral
       THEN /\ ticker_status' = neutral_state_transition(ticker_status, acquired)
            /\ UNCHANGED << entry_orders, sl_orders, tp_orders, book, orderspending >>
       ELSE IF ticker_status \in BuildStatuses
       THEN LET status == build_state_transition(ticker_status, ticker_position,
                                                 broken, reached)
                long == status = TickerStatus.BuildLong
                builds == status \in BuildStatuses /\ in_kc
                n == Len(book)
                t == TradeNo(book) + 1
            IN /\ ticker_status' = status
               /\ IF builds /\ (sl_orders = 0 \/ tp_orders = 0) /\ n + 3 <= MaxTickerOrders
                  THEN /\ book' = book \o
                            << Order("entry", t, long, "Market", 0, 0),
                               Order("stop", t, ~long, "Stop", n + 1, 0),
                               Order("target", t, ~long, "Limit", n + 1, 0) >>
                       /\ entry_orders' = Append(entry_orders, n + 1)
                       /\ sl_orders' = n + 2
                       /\ tp_orders' = n + 3
                       /\ orderspending' =
                            orderspending \o Submissions(<<n + 1, n + 2, n + 3>>)
                  ELSE IF builds /\ sl_orders # 0 /\ tp_orders # 0 /\ n + 1 <= MaxTickerOrders
                  THEN /\ book' = Append(
                            [book EXCEPT ![sl_orders].size = @ + Sign(@),
                                         ![tp_orders].size = @ + Sign(@)],
                            Order("entry", t, long, "Market", 0, 0))
                       /\ entry_orders' = Append(entry_orders, n + 1)
                       /\ orderspending' = orderspending \o Submissions(<<n + 1>>)
                       /\ UNCHANGED << sl_orders, tp_orders >>
                  ELSE UNCHANGED << entry_orders, sl_orders, tp_orders, book,
                                    orderspending >>
       ELSE UNCHANGED << mtfVars, book, orderspending >>
  /\ UNCHANGED ticker_position
  /\ UNCHANGED << entry_order, tp_order, sl_order, in_position, entries, exits, trades,
                  tradehistory, position, baropen, tradespending, length, tick >>
  /\ UNCHANGED << sweepVars, pathVars, signalVars >>

MtfInit == SweepParked /\ PathParked /\ TradeParked /\ MtfParked /\ SignalParked

MtfStep == MtfBroker \/ MtfNotify \/ MtfNext

MtfSpec == MtfInit /\ [][MtfStep]_vars

(***************************************************************************)
(* One call of TenXSqueeze.next, from what its indicators show.            *)
(***************************************************************************)
tp_atr_multiplier == DefaultParams.tp_atr_multiplier[2]

\* The entry TenXSqueeze.next decides on while out of the market.
EntrySignal_gate_ignored(i, gate) ==
  IF i.squeeze_status = 0
  THEN IF i.d_up /\ i.momentum > 0 /\ i.momentum > i.momentum_prev THEN "long"
       ELSE IF i.d_down /\ i.momentum < 0 /\ i.momentum < i.momentum_prev THEN "short"
       ELSE "none"
  ELSE "none"

EntrySignal(i, gate) ==
  IF i.squeeze_status = 0 /\ (~gate \/ i.good_momentum = 1)
  THEN IF i.d_up /\ i.momentum > 0 /\ i.momentum > i.momentum_prev THEN "long"
       ELSE IF i.d_down /\ i.momentum < 0 /\ i.momentum < i.momentum_prev THEN "short"
       ELSE "none"
  ELSE "none"

\* upper_atr and lower_atr: the position's price plus and minus
\* tp_atr_multiplier ATRs.
upper_atr(i) == i.price + (tp_atr_multiplier * i.atr) \div 10
lower_atr(i) == i.price - (tp_atr_multiplier * i.atr) \div 10

\* The target test of TenXSqueeze.next with strict comparisons.
AtrCross_strict(i, size) ==
  \/ i.close > upper_atr(i) /\ size > 0
  \/ i.close < lower_atr(i) /\ size < 0

\* The target test of TenXSqueeze.next while in the market.
AtrCross(i, size) ==
  \/ i.close >= upper_atr(i) /\ size > 0
  \/ i.close <= lower_atr(i) /\ size < 0

\* TenXBars: d_up and d_down exclude each other.
Trends ==
  { t \in [d_up : BOOLEAN, d_down : BOOLEAN] : ~(t.d_up /\ t.d_down) }

\* The closes looked at: below, at and above each target of an entry at 100
\* with an ATR of 10.
Closes == {70, 77, 100, 123, 130}

Indicators ==
  { [squeeze_status |-> q, good_momentum |-> g, d_up |-> t.d_up, d_down |-> t.d_down,
     momentum |-> m, momentum_prev |-> mp, close |-> c, price |-> 100, atr |-> 10] :
      q \in 0..3, g \in {0, 1}, t \in Trends, m \in -1..1, mp \in -1..1, c \in Closes }

\* The states next finds the strategy in: out of the market with nothing
\* pending, in the market behind its stop, and in the market with a target
\* order pending.  e is the number of bars since the entry.
Situations ==
  {[entry_order |-> 0, tp_order |-> 0, sl_order |-> 0, in_position |-> FALSE,
    entries |-> << >>, book |-> << >>, position |-> 0, length |-> 1]}
  \cup
  { [entry_order |-> 0, tp_order |-> 0, sl_order |-> 2, in_position |-> TRUE,
     entries |-> << [direction |-> IF long THEN "long" ELSE "short", bar_len |-> 1] >>,
     book |-> << [Order("entry", 1, long, "Market", 0, 0) EXCEPT !.status = "Completed"],
                 Order("stop", 1, ~long, "StopTrail", 1, 0) >>,
     position |-> IF long THEN 1 ELSE -1, length |-> 1 + e] :
       long \in BOOLEAN, e \in (max_trade_duration - 1)..(max_trade_duration + 1) }
  \cup
  { [entry_order |-> 0, tp_order |-> 3, sl_order |-> 2, in_position |-> TRUE,
     entries |-> << [direction |-> IF long THEN "long" ELSE "short", bar_len |-> 1] >>,
     book |-> << [Order("entry", 1, long, "Market", 0, 0) EXCEPT !.status = "Completed"],
                 Order("stop", 1, ~long, "StopTrail", 1, 0),
                 Order("target", 1, ~long, "StopTrail", 0, 2) >>,
     position |-> IF long THEN 1 ELSE -1, length |-> 1 + max_trade_duration] :
       long \in BOOLEAN }

GuardInit ==
  /\ SweepParked
  /\ PathParked
  /\ MtfParked
  /\ MomParked
  /\ TrailParked
  /\ SigParked
  /\ LoopParked
  /\ ind \in Indicators
  /\ use_good_momentum \in BOOLEAN
  /\ \E s \in Situations :
       /\ entry_order = s.entry_order
       /\ tp_order = s.tp_order
       /\ sl_order = s.sl_order
       /\ in_position = s.in_position
       /\ entries = s.entries
       /\ book = s.book
       /\ position = s.position
       /\ length = s.length
  /\ exits = << >>
  /\ trades = << >>
  /\ tradehistory = TRUE
  /\ baropen = 1
  /\ orderspending = << >>
  /\ tradespending = << >>
  /\ tick \in 1..TicksPerBar
  /\ turn = "strategy"

\* TenXSqueeze.next on one tick, from the indicators' values.
GuardNext ==
  /\ turn = "strategy"
  /\ orderspending = << >>
  /\ tradespending = << >>
  /\ turn' = "broker"
  /\ Decide(EntrySignal(ind, use_good_momentum), AtrCross(ind, position),
            max_trade_duration)
  /\ UNCHANGED << in_position, entries, exits, trades, tradehistory, position, baropen,
                  tradespending, length, tick >>
  /\ UNCHANGED << sweepVars, pathVars, mtfVars, signalVars >>

GuardSpec == GuardInit /\ [][GuardNext]_vars

(***************************************************************************)
(* The good-momentum gate: MomentumReversal, tick by tick, and the trade   *)
(* whose closing fill forces it off.                                       *)
(***************************************************************************)
cooldown == 1

\* The momentum values looked at: both signs, zero, and two magnitudes.
Moms == -2..2

Abs(x) == IF x < 0 THEN -x ELSE x

\* The indicator's state next and force_off read and write.
Reversal ==
  [momentum |-> momentum, good_momentum |-> good_momentum, forced_off |-> forced_off,
   bar_ref |-> bar_ref]

\* momentum[-cooldown] * momentum[-1 - cooldown] <= 0.
ZeroCross(m) == m[1 + cooldown] * m[2 + cooldown] <= 0

\* MomentumReversal.next on a tick: r has the tick's momentum and, at -1,
\* the good_momentum of the bar before; len is len(self).
MomentumReversal_next(r, len) ==
  IF r.forced_off
  THEN IF ZeroCross(r.momentum) /\ len > r.bar_ref
       THEN [r EXCEPT !.forced_off = FALSE, !.good_momentum[1] = 1]
       ELSE [r EXCEPT !.good_momentum[1] = 0]
  ELSE IF ZeroCross(r.momentum) THEN [r EXCEPT !.good_momentum[1] = 1]
  ELSE IF /\ Abs(r.momentum[1]) < Abs(r.momentum[2])
          /\ Abs(r.momentum[2]) < Abs(r.momentum[3])
  THEN [r EXCEPT !.good_momentum[1] = 0]
  ELSE [r EXCEPT !.good_momentum[1] = r.good_momentum[2]]

\* force_off that does not note the bar it is called on.
force_off_no_bar_ref(r, len) ==
  [r EXCEPT !.forced_off = TRUE, !.good_momentum[1] = 0]

\* MomentumReversal.force_off.
force_off(r, len) ==
  [r EXCEPT !.forced_off = TRUE, !.bar_ref = len, !.good_momentum[1] = 0]

\* A tick is replayed into the bar, or opens the next one, and the indicator
\* runs on it.
MomIndicatorNext ==
  /\ mom_turn = "indicator"
  /\ LET newbar == mom_tick = 0 \/ mom_tick = TicksPerBar
         len == IF newbar THEN mom_len + 1 ELSE mom_len
     IN /\ len <= MaxMomBars
        /\ \E m \in Moms :
             LET moved == IF newbar
                          THEN [Reversal EXCEPT
                                  !.momentum = << m, momentum[1], momentum[2] >>,
                                  !.good_momentum = << good_momentum[1], good_momentum[1] >>]
                          ELSE [Reversal EXCEPT !.momentum[1] = m]
                 r == MomentumReversal_next(moved, len)
             IN /\ momentum' = r.momentum
                /\ good_momentum' = r.good_momentum
                /\ forced_off' = r.forced_off
                /\ bar_ref' = r.bar_ref
                /\ crossed_later' =
                     (crossed_later
                        \/ (closing_bar > 0 /\ len > closing_bar /\ ZeroCross(r.momentum)))
        /\ mom_len' = len
        /\ mom_tick' = IF newbar THEN 1 ELSE mom_tick + 1
  /\ mom_turn' = "notify"
  /\ UNCHANGED << market, closing_bar >>
  /\ UNCHANGED << sweepVars, pathVars, tradeVars, mtfVars, ind, use_good_momentum, trailVars,
                  sigVars, loopVars >>

\* The tick's order notifications reach TenXSqueeze.notify_order: the entry
\* submitted on the tick before has filled, or the order in tp_order or
\* sl_order may have filled, which forces the indicator off.
MomNotify ==
  /\ mom_turn = "notify"
  /\ mom_turn' = "strategy"
  /\ \/ /\ market = "entering"
        /\ market' = "open"
        /\ UNCHANGED << momentum, good_momentum, forced_off, bar_ref, closing_bar,
                        crossed_later >>
     \/ /\ market = "open"
        /\ LET r == force_off(Reversal, mom_len)
           IN /\ good_momentum' = r.good_momentum
              /\ forced_off' = r.forced_off
              /\ bar_ref' = r.bar_ref
        /\ market' = "flat"
        /\ closing_bar' = mom_len
        /\ crossed_later' = FALSE
        /\ UNCHANGED momentum
     \/ /\ market # "entering"
        /\ UNCHANGED << momentum, good_momentum, forced_off, bar_ref, market, closing_bar,
                        crossed_later >>
  /\ UNCHANGED << mom_len, mom_tick >>
  /\ UNCHANGED << sweepVars, pathVars, tradeVars, mtfVars, ind, use_good_momentum, trailVars,
                  sigVars, loopVars >>

\* TenXSqueeze.next on the tick: out of the market it enters when the entry
\* guard passes on the indicators, whatever the squeeze and the trend are.
MomStrategyNext ==
  /\ mom_turn = "strategy"
  /\ mom_turn' = "indicator"
  /\ \E q \in {0, 3}, t \in Trends :
       LET i == [squeeze_status |-> q, good_momentum |-> good_momentum[1],
                 d_up |-> t.d_up, d_down |-> t.d_down, momentum |-> momentum[1],
                 momentum_prev |-> momentum[2], close |-> 0, price |-> 0, atr |-> 0]
       IN market' = IF market = "flat" /\ EntrySignal(i, use_good_momentum) # "none"
                    THEN "entering"
                    ELSE market
  /\ UNCHANGED << momentum, good_momentum, forced_off, bar_ref, mom_len, mom_tick,
                  closing_bar, crossed_later >>
  /\ UNCHANGED << sweepVars, pathVars, tradeVars, mtfVars, ind, use_good_momentum, trailVars,
                  sigVars, loopVars >>

MomInit ==
  /\ SweepParked
  /\ PathParked
  /\ TradeParked
  /\ MtfParked
  /\ IndParked
  /\ TrailParked
  /\ SigParked
  /\ LoopParked
  /\ MomStart
  /\ momentum \in Moms \X Moms \X Moms

MomNext == MomIndicatorNext \/ MomNotify \/ MomStrategyNext

MomSpec == MomInit /\ [][MomNext]_vars

(***************************************************************************)
(* The trailing stop-loss order trail_order makes, tick by tick.           *)
(***************************************************************************)
sl_trail_percent == DefaultParams.sl_trail_percent[2]

\* The closes of the feed and the ATRs an order can be made at.
TrailCloses == {90, 100, 110, 120, 130}
TrailAtrs == {10, 20}

Max(a, b) == IF a >= b THEN a ELSE b
Min(a, b) == IF a <= b THEN a ELSE b

\* A trailing stop that follows the price both ways.
trailadjust_follows(isbuy, level, close, amount) ==
  IF isbuy THEN close + amount ELSE close - amount

\* The StopTrail order's adjustment of its trigger price to a close: a sell
\* stop is moved up to close - trailamount, a buy stop down to
\* close + trailamount, and only if that tightens it.
trailadjust(isbuy, level, close, amount) ==
  IF isbuy THEN Min(level, close + amount) ELSE Max(level, close - amount)

\* TenXSqueeze.next enters: the stop-loss is made by trail_order with
\* trailamount = sl_trail_percent * atr[0] (percent_is_atr), its trigger
\* price set from the close of the tick.
TrailSubmit ==
  /\ trail_side = "flat"
  /\ last_close # 0
  /\ \E long \in BOOLEAN, atr \in TrailAtrs :
       LET amount == (sl_trail_percent * atr) \div 10
       IN /\ trail_side' = IF long THEN "entering_long" ELSE "entering_short"
          /\ trail_amount' = amount
          /\ stop_level' = IF long THEN last_close - amount ELSE last_close + amount
  /\ best_close' = last_close
  /\ UNCHANGED last_close
  /\ UNCHANGED << sweepVars, pathVars, tradeVars, mtfVars, ind, use_good_momentum, momVars,
                  sigVars, loopVars >>

\* The broker on the next tick: the entry executes and its stop becomes
\* active; an active stop executes when the tick reaches its trigger price
\* and is adjusted to the tick's close when it does not.
TrailTick ==
  /\ \E c \in TrailCloses :
       /\ last_close' = c
       /\ CASE trail_side = "flat" ->
                 UNCHANGED << trail_side, trail_amount, stop_level, best_close >>
            [] trail_side \in {"entering_long", "entering_short"} ->
                 /\ trail_side' = IF trail_side = "entering_long" THEN "long" ELSE "short"
                 /\ UNCHANGED << trail_amount, stop_level, best_close >>
            [] trail_side = "long" ->
                 IF c <= stop_level
                 THEN /\ trail_side' = "flat"
                      /\ UNCHANGED << trail_amount, stop_level, best_close >>
                 ELSE /\ stop_level' = trailadjust(FALSE, stop_level, c, trail_amount)
                      /\ best_close' = Max(best_close, c)
                      /\ UNCHANGED << trail_side, trail_amount >>
            [] trail_side = "short" ->
                 IF c >= stop_level
                 THEN /\ trail_side' = "flat"
                      /\ UNCHANGED << trail_amount, stop_level, best_close >>
                 ELSE /\ stop_level' = trailadjust(TRUE, stop_level, c, trail_amount)
                      /\ best_close' = Min(best_close, c)
                      /\ UNCHANGED << trail_side, trail_amount >>
  /\ UNCHANGED << sweepVars, pathVars, tradeVars, mtfVars, ind, use_good_momentum, momVars,
                  sigVars, loopVars >>

TrailInit ==
  /\ SweepParked
  /\ PathParked
  /\ TradeParked
  /\ MtfParked
  /\ IndParked
  /\ MomParked
  /\ TrailParked
  /\ SigParked
  /\ LoopParked

TrailNext == TrailSubmit \/ TrailTick

TrailSpec == TrailInit /\ [][TrailNext]_vars

(***************************************************************************)
(* One ticker of MTFB3, bar by bar, with the 5m signal and the bar that    *)
(* its transitions read.                                                   *)
(***************************************************************************)
\* The defaults of signal_condition and signal_break_condition.
n_consecutive == 6
window == 3

\* The 5m signal by its sign (Big3 writes -2 .. 2).
Signals == {-1, 0, 1}

\* The bars looked at: the high and the low against the channel lines.
Bars ==
  { [QuietBar EXCEPT !.high = h, !.low = l, !.in_kc = k] :
      h \in {3, 4, 5}, l \in {1, 2, 3}, k \in BOOLEAN }

\* above_0 and below_0.
test_fn(side, x) == IF side = "above" THEN x > 0 ELSE x < 0

\* signal_condition that looks at one bar fewer.
signal_condition_short(sig, side, n) ==
  \A x \in 1..(n - 1) : test_fn(side, sig[x])

\* neutral_state_transition's signal_condition: sig[x] is signal_5m[-(x - 1)].
signal_condition(sig, side, n) ==
  \A x \in 1..n : test_fn(side, sig[x])

\* build_state_transition's signal_break_condition.
signal_break_condition(sig, side, w) ==
  /\ test_fn(side, sig[w + 1])
  /\ \A x \in 1..w : sig[x] = 0

\* price_target_reached without its stop levels.
price_target_reached_target_only(status, b) ==
  IF status = TickerStatus.BuildLong THEN b.high >= b.lkc_u
  ELSE IF status = TickerStatus.BuildShort THEN b.low <= b.lkc_l
  ELSE FALSE

\* MTFB3.price_target_reached.
price_target_reached(status, b) ==
  IF status = TickerStatus.BuildLong THEN b.high >= b.lkc_u \/ b.low <= b.mkc_l
  ELSE IF status = TickerStatus.BuildShort THEN b.low <= b.lkc_l \/ b.high >= b.mkc_u
  ELSE FALSE

\* What neutral_state_transition finds in the signal.
Acquired(sig) ==
  IF signal_condition(sig, "above", n_consecutive) THEN "above"
  ELSE IF signal_condition(sig, "below", n_consecutive) THEN "below"
  ELSE "none"

SideOf(status) == IF status = TickerStatus.BuildLong THEN "above" ELSE "below"

\* The ticker as a call of next can find it: its status, its
\* ticker_position and the broker's position.  After the exit of a long
\* position ticker_position is twice the size of the position that was
\* closed (MTFB3_notify_order), with nothing held, and two short entries
\* filled after that bring it back to 0 with two units held short.
TickerSituations ==
  { << TickerStatus.Neutral, 0, 0 >>, << TickerStatus.Neutral, 2, 0 >>,
    << TickerStatus.BuildLong, 0, 0 >>, << TickerStatus.BuildShort, 0, 0 >>,
    << TickerStatus.BuildLong, 1, 1 >>, << TickerStatus.BuildShort, -1, -1 >>,
    << TickerStatus.BuildLong, 2, 0 >>, << TickerStatus.BuildShort, 2, 0 >>,
    << TickerStatus.BuildShort, 0, -2 >>,
    << TickerStatus.HoldLong, 1, 1 >>, << TickerStatus.HoldShort, -1, -1 >> }

\* MTFB3.update_sl_tp_prices: with both orders present, their prices are set
\* from the bar's channel lines by the ticker's status.
update_sl_tp_prices(status, b, pair, prices) ==
  IF pair
  THEN [sl |-> IF status = TickerStatus.BuildLong THEN b.mkc_l ELSE b.mkc_u,
        tp |-> IF status = TickerStatus.BuildLong THEN b.lkc_u ELSE b.lkc_l]
  ELSE prices

\* The prices build_position leaves: those of the bracket it creates, or
\* the ones the orders had.
build_position_prices(status, b, pair, prices) ==
  IF status \in BuildStatuses /\ b.in_kc /\ ~pair
  THEN [sl |-> IF status = TickerStatus.BuildLong THEN b.mkc_l ELSE b.mkc_u,
        tp |-> IF status = TickerStatus.BuildLong THEN b.lkc_u ELSE b.lkc_l]
  ELSE prices

\* MTFB3.next for the ticker: the transition of the status it has when the
\* call begins, then, from a Build status, build_position, which submits an
\* entry when the status is still a Build status and in_kc holds, and
\* update_sl_tp_prices; from a Hold status, update_sl_tp_prices alone.
SigNext ==
  /\ sig_turn = "next"
  /\ sig_turn' = "feed"
  /\ LET prices == [sl |-> sl_price, tp |-> tp_price]
     IN IF sig_status = TickerStatus.Neutral
        THEN /\ sig_status' = neutral_state_transition(sig_status, Acquired(signal_5m))
             /\ UNCHANGED << sig_submitted, sig_pair, sl_price, tp_price >>
        ELSE IF sig_status \in BuildStatuses
        THEN LET status ==
                   build_state_transition(
                     sig_status, sig_position,
                     signal_break_condition(signal_5m, SideOf(sig_status), window),
                     price_target_reached(sig_status, bar_5m))
                 submits == status \in BuildStatuses /\ bar_5m.in_kc
                 pair == sig_pair \/ submits
                 set == update_sl_tp_prices(
                          status, bar_5m, pair,
                          build_position_prices(status, bar_5m, sig_pair, prices))
             IN /\ sig_status' = status
                /\ sig_submitted' = submits
                /\ sig_pair' = pair
                /\ sl_price' = set.sl
                /\ tp_price' = set.tp
        ELSE LET set == update_sl_tp_prices(sig_status, bar_5m, sig_pair, prices)
             IN /\ sl_price' = set.sl
                /\ tp_price' = set.tp
                /\ UNCHANGED << sig_status, sig_submitted, sig_pair >>
  /\ UNCHANGED << signal_5m, bar_5m, sig_position, sig_held >>
  /\ UNCHANGED << sweepVars, pathVars, tradeVars, mtfVars, ind, use_good_momentum, momVars,
                  trailVars, loopVars >>

\* The price an order has from an earlier bar, none of this bar's lines.
StalePrice == QuietBar.high

\* A bar is in: any six values of the signal, any bar, any situation, with
\* or without both orders in the slots: a short position always has both,
\* and the exit of a long position has emptied one.
SigInit ==
  /\ SweepParked
  /\ PathParked
  /\ TradeParked
  /\ MtfParked
  /\ IndParked
  /\ MomParked
  /\ TrailParked
  /\ LoopParked
  /\ signal_5m \in [1..n_consecutive -> Signals]
  /\ bar_5m \in Bars
  /\ \E t \in TickerSituations :
       /\ sig_status = t[1]
       /\ sig_position = t[2]
       /\ sig_held = t[3]
  /\ sig_submitted = FALSE
  /\ sig_pair \in BOOLEAN
  /\ sig_held < 0 => sig_pair
  /\ (sig_status = TickerStatus.Neutral /\ sig_position # 0) => ~sig_pair
  /\ sl_price = (IF sig_pair THEN StalePrice ELSE 0)
  /\ tp_price = (IF sig_pair THEN StalePrice ELSE 0)
  /\ sig_turn = "next"

SigSpec == SigInit /\ [][SigNext]_vars

(***************************************************************************)
(* MTFB3.next over the tickers of a run: what it does for each, in order.  *)
(***************************************************************************)
\* What one bar shows next about a ticker: the results of signal_condition,
\* signal_break_condition and price_target_reached, and in_kc[0].
TickerInputs ==
  [acquired : {"above", "below", "none"}, broken : BOOLEAN, reached : BOOLEAN,
   in_kc : BOOLEAN]

\* One iteration of next's loop: the ticker's status after its transition
\* and whether build_position submits an entry.
ticker_next(status, held, in) ==
  IF status = TickerStatus.Neutral
  THEN [status |-> neutral_state_transition(status, in.acquired), submits |-> FALSE]
  ELSE IF status \in BuildStatuses
  THEN LET s == build_state_transition(status, held, in.broken, in.reached)
       IN [status |-> s, submits |-> s \in BuildStatuses /\ in.in_kc]
  ELSE [status |-> status, submits |-> FALSE]

RECURSIVE loop_events(_, _)
\* What the loop does from ticker i on, in the order it does it.
loop_events(i, inputs) ==
  IF i > Len(Tickers) THEN << >>
  ELSE LET r == ticker_next(loop_status[i], loop_position[i], inputs[i])
       IN (IF loop_status[i] \in HoldStatuses THEN << >>
           ELSE << << "transition", Tickers[i] >> >>)
          \o (IF r.submits THEN << << "order", Tickers[i] >> >> ELSE << >>)
          \o loop_events(i + 1, inputs)

\* MTFB3.next on one bar.
LoopNext ==
  /\ loop_turn = "next"
  /\ loop_turn' = "broker"
  /\ \E inputs \in [DOMAIN Tickers -> TickerInputs] :
       /\ loop_status' =
            [i \in DOMAIN Tickers |->
               ticker_next(loop_status[i], loop_position[i], inputs[i]).status]
       /\ loop_calls' = loop_events(1, inputs)
  /\ UNCHANGED loop_position
  /\ UNCHANGED << sweepVars, pathVars, tradeVars, mtfVars, ind, use_good_momentum, momVars,
                  trailVars, sigVars >>

\* The broker on the next bar: an entry submitted by the call for a ticker
\* with no position executes or is rejected, and notify_order is told.
LoopBroker ==
  /\ loop_turn = "broker"
  /\ loop_turn' = "next"
  /\ \E fills \in SUBSET { i \in DOMAIN Tickers :
                             /\ loop_position[i] = 0
                             /\ \E e \in DOMAIN loop_calls :
                                  loop_calls[e] = << "order", Tickers[i] >> } :
       loop_position' =
         [i \in DOMAIN Tickers |->
            IF i \in fills
            THEN MTFB3_notify_order(
                   [ticker_status |-> loop_status[i], ticker_position |-> loop_position[i],
                    entry_orders |-> << 1 >>, sl_orders |-> 2, tp_orders |-> 3],
                   1, "Completed", loop_status[i] = TickerStatus.BuildLong,
                   IF loop_status[i] = TickerStatus.BuildLong THEN 1 ELSE -1).ticker_position
            ELSE loop_position[i]]
  /\ UNCHANGED << loop_status, loop_calls >>
  /\ UNCHANGED << sweepVars, pathVars, tradeVars, mtfVars, ind, use_good_momentum, momVars,
                  trailVars, sigVars >>

LoopInit ==
  /\ SweepParked
  /\ PathParked
  /\ TradeParked
  /\ MtfParked
  /\ SignalParked

LoopStep == LoopNext \/ LoopBroker

LoopSpec == LoopInit /\ [][LoopStep]_vars

(***************************************************************************)
(* Helpers of the properties below.                                        *)
(***************************************************************************)
NonIdentifying == {"logging", "progress_bar", "log_file", "save_results", "cache_logs"}

SameIdentifying(p, q) ==
  \A i \in DOMAIN ParamOrder :
     ParamOrder[i] \notin NonIdentifying => p[ParamOrder[i]] = q[ParamOrder[i]]

\* The cells a record with these identifying fields has in its first columns.
KeyCells(keys) == [i \in 1..Len(keys) |-> Fmt(keys[i][2])]

\* Line n of the content is a data row holding exactly these identifying fields.
HoldsKeys(content, n, keys) ==
  /\ n \in 2..Len(content)
  /\ SubSeq(content[1], 1, Len(keys)) = Names(keys)
  /\ SubSeq(content[n], 1, Len(keys)) = KeyCells(keys)

\* Some row of the directory holds these identifying fields.
Cached(fs, keys) ==
  \E f \in DOMAIN fs : \E n \in 1..Len(fs[f]) : HoldsKeys(fs[f], n, keys)

\* The rows of the directory that hold these identifying fields, as read.
CachedRows(fs, keys) ==
  { ParsedRow(fs[f][1], fs[f][n]) :
      <<f, n>> \in { fn \in UNION { {f} \X (1..Len(fs[f])) : f \in DOMAIN fs } :
                       HoldsKeys(fs[fn[1]], fn[2], keys) } }

IsRow(r) == r[1] = "list" /\ Len(r[2]) = 1 /\ r[2][1][1] = "row"
AppendsOf(i) == { k \in DOMAIN appended : appended[k][1] = i }

\* C1: two parameter sets of the sweep that agree on every identifying key
\* and differ only in non-identifying ones get the same id keys from
\* get_id_keys (same keys, same order, same values), hence the same lookup.
C1_FingerprintDeterminism ==
  LET keys == [i \in DOMAIN tasks |-> get_id_keys(tasks[i])]
  IN \A i, j \in DOMAIN tasks :
        (i < j /\ SameIdentifying(tasks[i], tasks[j])) =>
           /\ keys[i] = keys[j]
           /\ \A f \in DOMAIN files :
                MatchingLines(keys[i], files[f]) = MatchingLines(keys[j], files[f])

\* Two combinations that differ in logging only were both served the same
\* cached row.
C1_Witness ==
  \E i, j \in DOMAIN tasks :
     /\ tasks[i].logging # tasks[j].logging
     /\ SameIdentifying(tasks[i], tasks[j])
     /\ IsRow(done[i]) /\ done[i] = done[j]

LatestFile(fs) == CHOOSE f \in DOMAIN fs : \A g \in DOMAIN fs : Suffix(g) <= Suffix(f)

\* The header and the row of the record combination i appends.
RecHeader(i) == HeaderOf(KeysOf(i), MetricsOf(outcomeOf, tasks[i]))
RecRow(i) == RowOf(KeysOf(i), MetricsOf(outcomeOf, tasks[i]))

\* C3: appending a record whose schema differs from the header of the
\* partition's current store creates a new store file, which ends up
\* holding the record's header followed by the record, and changes no
\* existing file.
C3_SchemaRotation ==
  [][\A w \in Workers :
       /\ ( /\ pc[w] = "post" /\ pc'[w] = "open"
            /\ DOMAIN files # {}
            /\ Len(files[LatestFile(files)]) > 0
            /\ files[LatestFile(files)][1] # RecHeader(cur[w]) )
          => /\ target'[w].file_path \notin DOMAIN files
             /\ target'[w].new_file
       /\ (pc[w] = "open" /\ pc'[w] = "close")
          => \A f \in DOMAIN files : files'[f] = files[f]
       /\ ( /\ pc[w] = "close" /\ pc'[w] = "ret"
            /\ target[w].new_file
            /\ DOMAIN files # {target[w].file_path} )
          => /\ DOMAIN files' = DOMAIN files
             /\ files'[target[w].file_path] = << RecHeader(cur[w]), RecRow(cur[w]) >>
             /\ \A f \in DOMAIN files \ {target[w].file_path} : files'[f] = files[f]
    ]_vars

\* A rotation has completed: a store that did not exist when the sweep
\* started holds one header and one record, the earlier stores are as they were.
C3_Witness ==
  \E k \in DOMAIN appended :
     LET f == appended[k][2]
     IN /\ DOMAIN store0 # {}
        /\ f \notin DOMAIN store0
        /\ files[f] = << RecHeader(appended[k][1]), appended[k][3] >>
        /\ files[f][1] # files[LatestFile(store0)][1]
        /\ \A g \in DOMAIN store0 : files[g] = store0[g]

\* The headers a record of this strategy can have.
Headers ==
  { HeaderOf(get_id_keys(DefaultParams), compact_analysis(o)) : o \in Outcomes }

InAppend(w) == pc[w] \in {"open", "close"}

\* C4: at most one worker at a time is inside the append critical section
\* (the lock is held exactly while one is), so every store file has one
\* header, on its first line, and every line below it is a whole row.
C4_AppendMutualExclusion ==
  /\ Cardinality({w \in Workers : InAppend(w)}) <= 1
  /\ filelock = (\E w \in Workers : InAppend(w))
  /\ \A f \in DOMAIN files :
       /\ Len(files[f]) > 0 => files[f][1] \in Headers
       /\ \A n \in 2..Len(files[f]) :
            /\ files[f][n] \notin Headers
            /\ Len(files[f][n]) = Len(files[f][1])

\* On a fresh partition one worker is writing while another waits for the
\* lock with its own record.
C4_Witness ==
  /\ DOMAIN store0 = {}
  /\ \E w1, w2 \in Workers :
       /\ w1 # w2
       /\ pc[w1] = "close" /\ target[w1].new_file
       /\ pc[w2] = "post"

\* The completed appends into file f, in the order they completed.
AppendsInto(f) == SelectSeq(appended, LAMBDA e : e[2] = f)

\* What file f must hold: what it held at the start, or else the header of
\* the first record appended to it, followed by the appended rows in order.
ExpectedContent(f) ==
  LET into == AppendsInto(f)
      base == IF f \in DOMAIN store0 THEN store0[f]
              ELSE IF Len(into) > 0 THEN << RecHeader(into[1][1]) >> ELSE << >>
  IN base \o [k \in 1..Len(into) |-> into[k][3]]

C6_FailureIsolation == dooptimize => state # "raised"

\* C7: the collection a multi-valued sweep returns holds one record for
\* every combination of the product, cached or freshly computed.
C7_OneRecordPerCombination ==
  (dooptimize /\ state = "returned") =>
     /\ DriverReturn(ret)[1] = "frame"
     /\ Len(DriverReturn(ret)[2]) = Len(tasks)

\* The identifying-field names in parameter order.
IdNames == SelectSeq(ParamOrder, LAMBDA n : n \notin NonIdentifying)

\* The column schema of a record whose backtest ended with outcome o.
SchemaOf(o) == IdNames \o Names(compact_analysis(o))

\* The row and the schema of the record for max_trade_duration d.
RecordRow(d) ==
  RowOf(get_id_keys(ParamSet(TRUE, TRUE, d)), MetricsOf(outcomeOf, ParamSet(TRUE, TRUE, d)))
RecordSchema(d) == SchemaOf(outcomeOf[d])

\* C8: every store file starts with one header row, which is a column
\* schema (identifying names in parameter order, then metric names in
\* computation order), and every data row below it is a record of exactly
\* that schema; a file is empty only while the append creating it is open.
C8_StoreSchemaInvariant ==
  \A f \in DOMAIN files :
     IF Len(files[f]) = 0
     THEN \E w \in Workers : pc[w] = "close" /\ target[w].file_path = f
     ELSE /\ \E o \in Outcomes : files[f][1] = SchemaOf(o)
          /\ \A n \in 2..Len(files[f]) :
               \E d \in Durations :
                  /\ files[f][n] = RecordRow(d)
                  /\ files[f][1] = RecordSchema(d)

\* Appends of this sweep have completed, one of them rotated or found a
\* rotated partition, and some store holds several rows.
C8_Witness ==
  /\ Len(appended) > 0
  /\ Cardinality(DOMAIN files) >= 2
  /\ \E f \in DOMAIN files : Len(files[f]) >= 3
  /\ \A w \in Workers : pc[w] = "idle"

\* C9: with several stores in the partition, a record whose schema matches
\* the header of the store with the largest number is appended to that
\* store, whatever the order of the directory listing, and the append
\* changes no other file.
C9_AppendToLargestSuffix ==
  [][\A w \in Workers :
       /\ ( /\ pc[w] = "post" /\ pc'[w] = "open"
            /\ Cardinality(DOMAIN files) >= 2
            /\ Len(files[LatestFile(files)]) > 0
            /\ files[LatestFile(files)][1] = RecHeader(cur[w]) )
          => target'[w] = [file_path |-> LatestFile(files), new_file |-> FALSE]
       /\ ( /\ pc[w] = "close" /\ pc'[w] = "ret"
            /\ ~target[w].new_file )
          => files' = [files EXCEPT ![target[w].file_path] = Append(@, RecRow(cur[w]))]
    ]_vars

\* A record was appended to the highest-numbered of several stores that
\* existed when the sweep started; the others are as they were.
C9_Witness ==
  \E k \in DOMAIN appended :
     LET f == appended[k][2]
     IN /\ Cardinality(DOMAIN store0) >= 2
        /\ f = LatestFile(store0)
        /\ Suffix(f) >= 1
        /\ files[f] = Append(store0[f], appended[k][3])
        /\ \A g \in DOMAIN store0 \ {f} : files[g] = store0[g]

\* The first data line of the content that holds the keys, or 0.
FirstHolding(content, keys) ==
  IF \E n \in 1..Len(content) : HoldsKeys(content, n, keys)
  THEN CHOOSE n \in 1..Len(content) :
         /\ HoldsKeys(content, n, keys)
         /\ \A m \in 1..(n - 1) : ~HoldsKeys(content, m, keys)
  ELSE 0

\* C10: a lookup that returns a row returns the first row of some store
\* file whose identifying fields equal the run's fingerprint exactly; it
\* passes over a file only if no row of it does, and reports 'not found'
\* only if no row of any file listed did.
C10_LookupHitIffMatch ==
  [][\A w \in Workers :
       LET keys == KeysOf(cur[w])
       IN /\ (pc[w] = "pre" /\ pc'[w] = "idle" /\ done'[cur[w]] # Raised)
             => \E f \in scan[w] :
                   /\ FirstHolding(files[f], keys) > 0
                   /\ done'[cur[w]] = ResultList(<< <<"row",
                         ParsedRow(files[f][1], files[f][FirstHolding(files[f], keys)])>> >>)
          /\ (pc[w] = "pre" /\ pc'[w] = "pre")
             => \A f \in scan[w] \ scan'[w] : FirstHolding(files[f], keys) = 0
          /\ (pc[w] = "pre" /\ pc'[w] = "run")
             => /\ ~Cached(listed[w], keys)
                /\ scan[w] = {}
    ]_vars

\* A lookup was served from a store that is not the latest one, while the
\* partition also holds rows that differ from the fingerprint.
C10_Witness ==
  \E i \in DOMAIN tasks :
     /\ IsRow(done[i])
     /\ \E f \in DOMAIN store0 :
          /\ f # LatestFile(store0)
          /\ FirstHolding(store0[f], KeysOf(i)) > 0
          /\ FirstHolding(store0[LatestFile(store0)], KeysOf(i)) = 0
          /\ Len(store0[LatestFile(store0)]) >= 2


\* C13: during a sweep the completed counter never decreases, grows by
\* exactly one with each result delivered to the caller (a cached row or a
\* freshly computed strategy alike), never exceeds the number of
\* combinations and equals it when run returns.
C13_ProgressCounter ==
  [][ /\ progress' >= progress
      /\ progress' <= progress + 1
      /\ progress' <= Len(tasks)
      /\ progress' = Len(cached_strats') + Len(callbacks')
      /\ (Len(cached_strats') + Len(callbacks')
            = Len(cached_strats) + Len(callbacks) + (progress' - progress))
      /\ (dooptimize /\ datas /\ state' = "returned") => progress' = Len(tasks)
    ]_vars

\* A sweep returned after counting one cached and one fresh combination.
C13_Witness ==
  /\ dooptimize /\ state = "returned"
  /\ Len(cached_strats) = 1 /\ Len(callbacks) = 1
  /\ progress = 2

Active(w) == pc[w] # "idle"

\* C14: the combinations are handed out one by one, each to one worker and
\* never twice; no two workers hold the same combination, no combination is
\* left out of a sweep that returns, and no more workers are busy than the
\* pool has (one, the caller, without optimisation).
C14_OneWorkerPerCombination ==
  /\ [](/\ \A w1, w2 \in Workers :
             (Active(w1) /\ Active(w2) /\ w1 # w2) => cur[w1] # cur[w2]
        /\ Cardinality({w \in Workers : Active(w)})
             <= (IF dooptimize THEN MaxCpus ELSE 1)
        /\ \A i \in DOMAIN tasks :
             IF i < nextTask
             THEN (done[i] # NoResult) # (\E w \in Workers : Active(w) /\ cur[w] = i)
             ELSE done[i] = NoResult /\ \A w \in Workers : cur[w] # i
        /\ (datas /\ state = "returned") => \A i \in DOMAIN tasks : done[i] # NoResult)
  /\ [][ /\ nextTask' \in {nextTask, nextTask + 1}
         /\ \A w \in Workers :
              cur'[w] # cur[w] => (nextTask' = nextTask + 1 /\ cur'[w] = nextTask
                                     /\ \A v \in Workers \ {w} : cur'[v] = cur[v])
         /\ \A i \in DOMAIN tasks : done[i] # NoResult => done'[i] = done[i]
       ]_vars

\* Two workers of the pool are running the backtests of two combinations.
C14_Witness ==
  \E w1, w2 \in Workers :
     /\ w1 # w2
     /\ pc[w1] = "run" /\ pc[w2] = "run"
     /\ cur[w1] # cur[w2]

\* C15: once the stop flag is set no further combination is started.
C15_CooperativeCancellation ==
  [][ event_stop => nextTask' = nextTask ]_vars

\* C16: without a data feed run does nothing but return the empty list: no
\* combination is taken, no strategy built, no backtest run, no file of the
\* partition read, created or changed.
C16_NoDataReturnsEmpty ==
  ~datas =>
     /\ nextTask = 1
     /\ \A w \in Workers : pc[w] = "idle" /\ scan[w] = {}
     /\ \A i \in DOMAIN tasks : done[i] = NoResult
     /\ ran = {} /\ appended = << >> /\ faults = 0
     /\ files = store0 /\ dirExists = (DOMAIN store0 # {})
     /\ progress = 0
     /\ state \in {"running", "returned"}
     /\ state = "returned" => ret = << >>

\* run was called without a data feed and has returned.
C16_Witness == ~datas /\ state = "returned" /\ Len(tasks) > 1 /\ ret = << >>


\* C11: a lookup never returns a row that was computed for another
\* instrument.
C11_PartitionPerInstrument ==
  served.from # "" => served.from = served.to

\* C12: the partition path does not depend on parameter values: every row
\* is stored under the path that any parameter set of the same strategy
\* resolves to over the row's bar series.
C12_PathIgnoresParameters ==
  \A path \in DOMAIN partitions :
     \A row \in partitions[path] :
        \A lg \in BOOLEAN, d \in Durations :
           get_result_path(Strategy(ParamSet(lg, TRUE, d)), row.feed) = path

\* Two runs over one bar series with different parameter values have
\* their rows in one partition.
C12_Witness ==
  \E path \in DOMAIN partitions :
     \E r1, r2 \in partitions[path] :
        r1.keys # r2.keys /\ r1.feed = r2.feed

\* The orders that close a position: the trailing stop, the trailing target
\* and the close of the max-duration path.
ExitOrders(t) ==
  { o \in DOMAIN book : book[o].trade = t /\ book[o].made \in {"stop", "target", "close"} }

FilledExits(t) == { o \in ExitOrders(t) : book[o].status = "Completed" }

\* This step delivers the Completed notification of a stop or a target.
ExitFillNotified ==
  /\ turn = "strategy"
  /\ orderspending # << >>
  /\ Head(orderspending)[2] = "Completed"
  /\ book[Head(orderspending)[1]].made \in {"stop", "target"}
  /\ orderspending' = Tail(orderspending)

\* C17 (as stated): within one trade at most one of the stop-loss and the
\* take-profit is ever filled, and the notification step that delivers the
\* fill of one of them leaves both order slots empty.
C17_OcoMutualExclusion ==
  /\ [](\A t \in 1..TradeNo(book) :
          Cardinality({ o \in FilledExits(t) : book[o].made \in {"stop", "target"} }) <= 1)
  /\ [][ExitFillNotified => (tp_order' = 0 /\ sl_order' = 0)]_vars

\* C17 (amended): within one trade at most one exit order is ever filled,
\* and once the notifications of the tick in which it filled have all been
\* delivered (the fill, then the cancellation of the other order) both the
\* stop-loss slot and the take-profit slot are empty.
C17_OcoSlotsClearedByCancel ==
  /\ \A t \in 1..TradeNo(book) : Cardinality(FilledExits(t)) <= 1
  /\ (orderspending = << >> /\ TradeNo(book) > 0 /\ FilledExits(TradeNo(book)) # {})
       => (tp_order = 0 /\ sl_order = 0)

\* A take-profit filled while the stop-loss was live: the stop-loss was
\* cancelled, and both slots are empty once the strategy has been told.
C17_Witness ==
  /\ orderspending = << >>
  /\ \E o \in DOMAIN book, q \in DOMAIN book :
       /\ book[o].made = "target" /\ book[o].status = "Completed"
       /\ book[q].made = "stop" /\ book[q].status = "Canceled"
       /\ book[o].oco = q
  /\ tp_order = 0
  /\ sl_order = 0
  /\ Len(exits) = 1

\* The close of the max-duration path has executed and the strategy has been
\* told of everything.
DurationClosed ==
  /\ orderspending = << >>
  /\ tradespending = << >>
  /\ \E o \in DOMAIN book : book[o].made = "close" /\ book[o].status = "Completed"

\* C20: a position whose ATR target is never crossed and whose trailing stop
\* is never hit is closed by the max-duration path once max_trade_duration
\* (9) bars have passed since its entry: the stop-loss is cancelled and an
\* unconditional close is submitted, no take-profit order is created, and
\* when the close has executed there is exactly one TradeRecord, with
\* bar_duration 9.
C20_MaxDurationScenario ==
  /\ ( /\ turn = "broker"
       /\ position # 0
       /\ entries # << >>
       /\ \A o \in DOMAIN book : book[o].made # "target"
       /\ length - entries[Len(entries)].bar_len >= max_trade_duration )
       => \E o \in DOMAIN book, q \in DOMAIN book :
            /\ book[o].made = "close" /\ sl_order = o
            /\ book[q].made = "stop" /\ book[q].status = "Canceled"
  /\ DurationClosed
       => /\ \A o \in DOMAIN book : book[o].made # "target"
          /\ Len(trades) = 1
          /\ trades[1].bar_duration = 9

\* This step delivers the Completed notification of the order in the
\* ticker's stop-loss slot or take-profit slot.
StopOrTargetFill ==
  /\ turn = "strategy"
  /\ orderspending # << >>
  /\ Head(orderspending)[2] = "Completed"
  /\ Head(orderspending)[1] \in {sl_orders, tp_orders}
  /\ orderspending' = Tail(orderspending)

\* C18: the only changes of a ticker's status are Neutral -> BuildLong or
\* BuildShort, Build* -> Neutral (the broker holds no position in the ticker
\* once the step is done), Build* -> Hold* of the same side (the broker
\* holds a position in the ticker) and Hold* -> Neutral (on the fill of the
\* stop or the target).
C18_StateCoverage ==
  [][ ticker_status' # ticker_status =>
        \/ /\ ticker_status = TickerStatus.Neutral
           /\ ticker_status' \in BuildStatuses
        \/ /\ ticker_status \in BuildStatuses
           /\ ticker_status' = TickerStatus.Neutral
           /\ position' = 0
        \/ /\ ticker_status = TickerStatus.BuildLong
           /\ ticker_status' = TickerStatus.HoldLong
           /\ position' # 0
        \/ /\ ticker_status = TickerStatus.BuildShort
           /\ ticker_status' = TickerStatus.HoldShort
           /\ position' # 0
        \/ /\ ticker_status \in HoldStatuses
           /\ ticker_status' = TickerStatus.Neutral
           /\ StopOrTargetFill ]_vars

\* C19: a ticker whose status is Neutral has no open orders: its list of
\* entry orders is empty and its stop-loss slot and its take-profit slot
\* are both empty, after every step of next and of notify_order.
C19_NeutralHasNoOrders ==
  ticker_status = TickerStatus.Neutral
    => (entry_orders = << >> /\ sl_orders = 0 /\ tp_orders = 0)

\* This step delivers the notification at the head of orderspending.
Notified ==
  /\ turn = "strategy"
  /\ orderspending # << >>
  /\ orderspending' = Tail(orderspending)

\* C23: a Submitted or Accepted notification changes no order slot,
\* in_position, entries or exits; a Canceled, Margin or Rejected
\* notification empties exactly the slot that holds the order and leaves
\* the other slots, in_position, entries and exits as they were; and once
\* every notification is delivered no dead order is left in the entry or
\* take-profit slot, so next is not kept from evaluating the bar.
C23_NonFillNotifications ==
  /\ [][ Notified =>
           LET order == Head(orderspending)[1]
               status == Head(orderspending)[2]
           IN /\ status \in {"Submitted", "Accepted"}
                   => UNCHANGED << entry_order, tp_order, sl_order, in_position,
                                   entries, exits >>
              /\ status \in {"Canceled", "Margin", "Rejected"}
                   => /\ entry_order' = IF entry_order = order THEN 0 ELSE entry_order
                      /\ tp_order' = IF tp_order = order THEN 0 ELSE tp_order
                      /\ sl_order' = IF sl_order = order THEN 0 ELSE sl_order
                      /\ UNCHANGED << in_position, entries, exits >> ]_vars
  /\ []( (orderspending = << >> /\ \A o \in DOMAIN book : book[o].status # "Accepted")
           => (entry_order = 0 /\ tp_order = 0) )

\* The entry was refused for margin: its slot is empty, the stop-loss slot
\* still holds the cancelled child whose notification comes next.
C23_Witness ==
  /\ turn = "strategy"
  /\ orderspending # << >>
  /\ Head(orderspending)[2] = "Canceled"
  /\ sl_order = Head(orderspending)[1]
  /\ entry_order = 0
  /\ \E o \in DOMAIN book : book[o].made = "entry" /\ book[o].status = "Margin"
  /\ ~in_position

\* The stop-loss orders that are children of entry o.
StopsOf(bk, o) ==
  { q \in DOMAIN bk : /\ bk[q].parent = o
                      /\ bk[q].made = "stop"
                      /\ bk[q].exectype = "StopTrail"
                      /\ bk[q].isbuy # bk[o].isbuy }

\* C25: a step that creates an entry order creates with it exactly one
\* trailing stop-loss of the opposite side whose parent is the entry, and
\* nothing else; the stop-loss does not execute (and is not cancelled on its
\* own) before the entry has filled, and while an entry is outstanding so is
\* its stop-loss.
C25_AtomicEntryBracket ==
  /\ [][ \A o \in DOMAIN book' \ DOMAIN book :
           book'[o].made = "entry"
             => /\ Len(book') = Len(book) + 2
                /\ Cardinality(StopsOf(book', o)) = 1
                /\ StopsOf(book', o) \subseteq DOMAIN book' \ DOMAIN book ]_vars
  /\ [](\A o \in DOMAIN book :
          book[o].made = "entry"
            => \A q \in StopsOf(book, o) :
                 /\ book[q].status = "Completed" => book[o].status = "Completed"
                 /\ book[o].status = "Accepted" => book[q].status = "Accepted")
  /\ [](\A o \in DOMAIN book : book[o].made = "entry" => StopsOf(book, o) # {})

\* An entry is outstanding with its stop-loss, neither executed yet.
C25_Witness ==
  /\ turn = "broker"
  /\ entry_order # 0
  /\ book[entry_order].status = "Accepted"
  /\ sl_order \in StopsOf(book, entry_order)
  /\ book[sl_order].status = "Accepted"
  /\ position = 0

\* C21: after every call of next at which a position is open and the bars
\* since its entry filled are at least max_trade_duration, the stop-loss has
\* been cancelled and an unconditional close is submitted: the stop-loss
\* slot holds a market close that is outstanding.
C21_MaximumHoldTime ==
  ( /\ turn = "broker"
    /\ position # 0
    /\ entries # << >>
    /\ length - entries[Len(entries)].bar_len >= max_trade_duration )
    => /\ sl_order # 0
       /\ book[sl_order].made = "close"
       /\ book[sl_order].status = "Accepted"

\* The step submits an entry order.
NewEntry == \E o \in DOMAIN book' \ DOMAIN book : book'[o].made = "entry"

NewEntryIsBuy == \E o \in DOMAIN book' \ DOMAIN book : book'[o].made = "entry" /\ book'[o].isbuy

\* The tick closes its bar: it is the last tick replayed into the bar.
BarClose == tick = TicksPerBar

\* What the entry guard asks of the state next runs in.
EntryGuard(isbuy) ==
  /\ position = 0
  /\ entry_order = 0
  /\ tp_order = 0
  /\ ind.squeeze_status = 0
  /\ ~use_good_momentum \/ ind.good_momentum = 1
  /\ IF isbuy
     THEN ind.d_up /\ ind.momentum > 0 /\ ind.momentum > ind.momentum_prev
     ELSE ind.d_down /\ ind.momentum < 0 /\ ind.momentum < ind.momentum_prev

OutstandingEntries ==
  { o \in DOMAIN book : book[o].made = "entry" /\ book[o].status = "Accepted" }

NewTarget ==
  \E o \in DOMAIN book' \ DOMAIN book :
    /\ book'[o].made = "target"
    /\ book'[o].exectype = "StopTrail"
    /\ book'[o].oco = sl_order
    /\ book'[o].isbuy = (position < 0)
    /\ tp_order' = o

\* The close has reached the target of the position.
TargetCrossed ==
  \/ position > 0 /\ 10 * ind.close >= 10 * ind.price + tp_atr_multiplier * ind.atr
  \/ position < 0 /\ 10 * ind.close <= 10 * ind.price - tp_atr_multiplier * ind.atr

DurationReached == length - entries[Len(entries)].bar_len >= max_trade_duration

\* next runs in the market with no entry and no take-profit pending.
InMarketNoTarget ==
  turn = "strategy" /\ position # 0 /\ entry_order = 0 /\ tp_order = 0

\* On a bar where the target is crossed and the duration limit is reached,
\* only the take-profit order is submitted and the stop-loss stays.
TargetBeforeDuration ==
  (TargetCrossed /\ DurationReached)
    => /\ Len(book') = Len(book) + 1
       /\ sl_order' = sl_order
       /\ book'[sl_order].status = "Accepted"

GateHeld == closing_bar > 0 /\ ~crossed_later

\* C28: with use_good_momentum enabled, once a closing order fills,
\* good_momentum is forced to 0 and stays 0, and no entry is submitted, until
\* a bar strictly later than the closing bar on which momentum has crossed
\* zero.
C28_MomentumResetGate ==
  /\ [](GateHeld => good_momentum[1] = 0)
  /\ [][(use_good_momentum /\ GateHeld /\ mom_turn = "strategy") => market' = market]_vars

\* After a closing fill a later bar has seen momentum cross zero, the gate
\* has opened again and an entry has followed.
C28_Witness ==
  /\ closing_bar > 0
  /\ mom_len > closing_bar
  /\ crossed_later
  /\ ~forced_off
  /\ use_good_momentum
  /\ market = "entering"

SixAbove == \A x \in 1..6 : signal_5m[x] > 0
SixBelow == \A x \in 1..6 : signal_5m[x] < 0

SignalBroken(long) ==
  /\ IF long THEN signal_5m[4] > 0 ELSE signal_5m[4] < 0
  /\ signal_5m[1] = 0
  /\ signal_5m[2] = 0
  /\ signal_5m[3] = 0

\* The bar's high or low touches the target or the stop of the side.
LevelTouched(long) ==
  IF long
  THEN bar_5m.high >= bar_5m.lkc_u \/ bar_5m.low <= bar_5m.mkc_l
  ELSE bar_5m.low <= bar_5m.lkc_l \/ bar_5m.high >= bar_5m.mkc_u

\* C30: a ticker in Build* with no open position becomes Neutral on a bar
\* where the signal has broken or where the bar's high or low touches the
\* target or the stop level, and no entry is submitted for it on that bar;
\* otherwise it stays in Build*.
C30_BuildToNeutral ==
  [][(sig_turn = "next" /\ sig_status \in BuildStatuses /\ sig_held = 0)
       => LET long == sig_status = TickerStatus.BuildLong
              leaves == SignalBroken(long) \/ LevelTouched(long)
          IN /\ leaves => (sig_status' = TickerStatus.Neutral /\ ~sig_submitted')
             /\ ~leaves => sig_status' = sig_status]_vars

\* C24: within one bar, the signal evaluation and the status transition of
\* every ticker are completed before any order of that bar is submitted for
\* any ticker.
C24_TransitionsBeforeOrders ==
  \A i, j \in DOMAIN loop_calls :
    (i < j /\ loop_calls[i][1] = "order") => loop_calls[j][1] # "transition"

\* C32: when a ticker's stop or target order fills, its status becomes
\* Neutral, the filled order's slot is cleared, and its tracked net position
\* returns to 0, which empties its entry-order list.
C32_ClosingFillResets ==
  [][StopOrTargetFill
       => /\ ticker_status' = TickerStatus.Neutral
          /\ Head(orderspending)[1] = sl_orders => sl_orders' = 0
          /\ Head(orderspending)[1] = tp_orders => tp_orders' = 0
          /\ ticker_position' = 0
          /\ entry_orders' = << >>]_vars

\* C31: a ticker in Build* with a non-zero position becomes Hold* of the
\* same direction on a signal-break bar, with no order submitted; while it
\* is in Hold*, next submits no entry for it and leaves its status alone.
C31_BuildToHold ==
  [][sig_turn = "next"
       => /\ (/\ sig_status \in BuildStatuses
              /\ sig_held # 0
              /\ SignalBroken(sig_status = TickerStatus.BuildLong))
             => /\ sig_status' = IF sig_status = TickerStatus.BuildLong
                                 THEN TickerStatus.HoldLong
                                 ELSE TickerStatus.HoldShort
                /\ ~sig_submitted'
          /\ sig_status \in HoldStatuses
             => (sig_status' = sig_status /\ ~sig_submitted')]_vars

\* The entries submitted for the ticker since its current stop/target pair
\* was created, the pair's parent included.
PairUnits ==
  Cardinality({ o \in DOMAIN book : /\ book[o].made = "entry"
                                    /\ o >= book[sl_orders].parent })

\* next submits a bracket: an entry of size 1 with a stop and a target that
\* are its children, which take the ticker's slots.
SubmitsBracket ==
  LET n == Len(book)
  IN /\ Len(book') = n + 3
     /\ \A o \in 1..n : book'[o] = book[o]
     /\ book'[n + 1].made = "entry" /\ Abs(book'[n + 1].size) = 1
     /\ book'[n + 1].isbuy = (ticker_status' = TickerStatus.BuildLong)
     /\ book'[n + 2].exectype = "Stop" /\ book'[n + 2].parent = n + 1
     /\ book'[n + 3].exectype = "Limit" /\ book'[n + 3].parent = n + 1
     /\ book'[n + 2].isbuy # book'[n + 1].isbuy
     /\ book'[n + 3].isbuy # book'[n + 1].isbuy
     /\ sl_orders' = n + 2
     /\ tp_orders' = n + 3
     /\ entry_orders' = Append(entry_orders, n + 1)

\* next submits one more entry of size 1 and grows the pair by one unit.
SubmitsUnit ==
  LET n == Len(book)
  IN /\ Len(book') = n + 1
     /\ book'[n + 1].made = "entry" /\ Abs(book'[n + 1].size) = 1
     /\ book'[n + 1].exectype = "Market" /\ book'[n + 1].parent = 0
     /\ book'[n + 1].isbuy = (ticker_status' = TickerStatus.BuildLong)
     /\ \A o \in 1..n :
          IF o \in {sl_orders, tp_orders}
          THEN /\ Abs(book'[o].size) = Abs(book[o].size) + 1
               /\ Sign(book'[o].size) = Sign(book[o].size)
          ELSE book'[o] = book[o]
     /\ sl_orders' = sl_orders
     /\ tp_orders' = tp_orders
     /\ entry_orders' = Append(entry_orders, n + 1)

\* C33: a call of next that submits anything does so in Build*, and submits
\* a bracket (size-1 entry with its stop and target children) when the ticker
\* has no complete stop/target pair, or exactly one size-1 entry when it has
\* one, growing the magnitude of the stop's and the target's size by 1 and
\* creating no stop or target; the size of a pair is always the number of
\* entries submitted since the pair was created.
C33_Scaling ==
  /\ []((sl_orders # 0 /\ tp_orders # 0)
          => /\ book[sl_orders].parent = book[tp_orders].parent
             /\ Abs(book[sl_orders].size) = PairUnits
             /\ Abs(book[tp_orders].size) = PairUnits)
  /\ [][(turn = "strategy" /\ turn' = "broker" /\ book' # book)
          => /\ ticker_status' \in BuildStatuses
             /\ IF sl_orders = 0 \/ tp_orders = 0
                THEN SubmitsBracket
                ELSE SubmitsUnit]_vars

\* A pair has grown to two units, on either side.
C33_Witness ==
  /\ sl_orders # 0
  /\ tp_orders # 0
  /\ Abs(book[sl_orders].size) = 2
  /\ Abs(book[tp_orders].size) = 2
  /\ Len(entry_orders) >= 2

\* C34: after a call of next that begins with the ticker in Build* or Hold*
\* and leaves it in Build* or Hold* with both a stop and a target, the stop
\* is at the lower mid band and the target at the upper outer band for
\* BuildLong and HoldLong, and the stop at the upper mid band and the target
\* at the lower outer band for BuildShort and HoldShort.
C34_PricesFollowDirection ==
  [][(/\ sig_turn = "next"
      /\ sig_status \in BuildStatuses \cup HoldStatuses
      /\ sig_status' \in BuildStatuses \cup HoldStatuses
      /\ sig_pair')
       => IF sig_status' \in {TickerStatus.BuildLong, TickerStatus.HoldLong}
          THEN sl_price' = bar_5m.mkc_l /\ tp_price' = bar_5m.lkc_u
          ELSE sl_price' = bar_5m.mkc_u /\ tp_price' = bar_5m.lkc_l]_vars

\* C39: every list a worker hands back to run is non-empty and begins with
\* a cached row or with a finished strategy.
C39_ResultShape ==
  \A i \in DOMAIN done :
    done[i][1] = "list"
      => /\ Len(done[i][2]) > 0
         /\ done[i][2][1][1] \in {"row", "strat"}

\* The record schemas the partition's stores hold.
StoreSchemas == { files[f][1] : f \in { g \in DOMAIN files : Len(files[g]) > 0 } }

\* C40: with no append under way, the partition has no more store files
\* than the appended records have distinct schemas.
C40_RotationBound ==
  (\A w \in Workers : pc[w] \notin {"open", "close"})
    => Cardinality(DOMAIN files) <= Cardinality(StoreSchemas)

\* The result of combination i is its finished strategy.
Computed(i) == done[i] = ResultList(<< <<"strat", i>> >>)


\* C35: with save_results on, a combination whose finished strategy is
\* delivered has exactly one completed append, of its identifying fields and
\* metrics, whose row is in the store file it went to; an append is made only
\* after the combination's backtest has run and before its result is
\* delivered; a combination delivered as a cached row has no append.
C35_PersistOnMiss ==
  /\ [](\A i \in DOMAIN tasks :
          save_results(i)
            => /\ Cardinality(AppendsOf(i)) <= 1
               /\ Computed(i) => Cardinality(AppendsOf(i)) = 1
               /\ IsRow(done[i]) => AppendsOf(i) = {}
               /\ \A n \in AppendsOf(i) :
                    /\ i \in ran
                    /\ appended[n][3] = RowOf(KeysOf(i), MetricsOf(outcomeOf, tasks[i]))
                    /\ appended[n][2] \in DOMAIN files
                    /\ \E l \in DOMAIN files[appended[n][2]] :
                         l > 1 /\ files[appended[n][2]][l] = appended[n][3])
  /\ [][\A i \in DOMAIN tasks :
          Len(appended') > Len(appended) /\ appended'[Len(appended')][1] = i
            => done[i] = NoResult /\ done'[i] = NoResult /\ i \in ran]_vars

\* A miss was computed, stored and delivered, next to a hit of the same sweep.
C35_Witness ==
  \E i, j \in DOMAIN tasks :
    /\ save_results(i)
    /\ Computed(i)
    /\ Cardinality(AppendsOf(i)) = 1
    /\ IsRow(done[j])

\* C36: in a run with save_results false no worker is ever in pre_strategy's
\* lookup or in post_strategy's append, no result is a cached row, every
\* delivered result is a strategy whose backtest ran, nothing is appended,
\* and the partition directory and its files are as they were at the start.
C36_UnsavedRunLeavesStore ==
  (\A i \in DOMAIN tasks : tasks[i].save_results = B(FALSE))
    => /\ files = store0
       /\ dirExists = (DOMAIN store0 # {})
       /\ appended = << >>
       /\ \A w \in Workers :
            /\ pc[w] \in {"idle", "run", "ret"}
            /\ scan[w] = {}
       /\ \A i \in DOMAIN tasks :
            /\ ~IsRow(done[i])
            /\ Computed(i) => i \in ran

\* A run with save_results false has computed a combination for which the
\* partition holds a matching row.
C36_Witness ==
  \E i \in DOMAIN tasks :
    /\ tasks[i].save_results = B(FALSE)
    /\ Cached(store0, KeysOf(i))
    /\ Computed(i)
    /\ i \in ran

\* C37: len(entries) - len(exits) is 0 or 1 and in_position holds exactly
\* when it is 1; the notification of a filled entry appends one entry, sets
\* in_position and empties the entry slot; the notification of a filled
\* take-profit or stop-loss appends one exit, clears in_position and empties
\* the slot of the filled order.
C37_EntryExitBookkeeping ==
  /\ [](/\ Len(entries) - Len(exits) \in {0, 1}
        /\ in_position <=> (Len(entries) - Len(exits) = 1))
  /\ [][(Notified /\ Head(orderspending)[2] = "Completed")
          => LET order == Head(orderspending)[1]
             IN /\ order = entry_order
                  => /\ Len(entries') = Len(entries) + 1
                     /\ SubSeq(entries', 1, Len(entries)) = entries
                     /\ exits' = exits
                     /\ in_position'
                     /\ entry_order' = 0
                /\ (order # entry_order /\ order \in {tp_order, sl_order})
                  => /\ Len(exits') = Len(exits) + 1
                     /\ SubSeq(exits', 1, Len(exits)) = exits
                     /\ entries' = entries
                     /\ ~in_position'
                     /\ order = tp_order => tp_order' = 0
                     /\ order = sl_order => sl_order' = 0]_vars

\* A trade was entered and left: one entry and one exit are recorded, the
\* strategy is out of the market and the slot of the filled exit is empty.
C37_Witness ==
  /\ Len(entries) = 1
  /\ Len(exits) = 1
  /\ ~in_position
  /\ position = 0
  /\ orderspending = << >>
  /\ entry_order = 0
  /\ tp_order = 0
  /\ sl_order = 0

\* next is about to be called: the tick's notifications have been delivered.
NextIsDue == turn = "strategy" /\ orderspending = << >> /\ tradespending = << >>

\* The slot holds an order that closes the position and is still working.
LiveClosing(slot) ==
  /\ slot # 0
  /\ book[slot].status = "Accepted"
  /\ book[slot].made \in {"stop", "target", "close"}

\* C38: at every call of next at which a position is open, the stop-loss
\* slot or the take-profit slot holds a working closing order and entries is
\* not empty; and whenever next takes the max-duration path, the stop-loss
\* slot holds a working order to cancel.
C38_ProtectedPosition ==
  /\ []((NextIsDue /\ position # 0)
          => /\ Len(entries) >= 1
             /\ LiveClosing(sl_order) \/ LiveClosing(tp_order))
  /\ [][(NextIsDue /\ Len(book') > Len(book) /\ book'[Len(book')].made = "close")
          => /\ entries # << >>
             /\ sl_order # 0
             /\ book[sl_order].status = "Accepted"
             /\ book'[sl_order].status = "Canceled"]_vars

\* A position has been held for max_trade_duration bars with no take-profit
\* pending: the next call takes the max-duration path.
C38_Witness ==
  /\ NextIsDue
  /\ position # 0
  /\ entry_order = 0
  /\ tp_order = 0
  /\ LiveClosing(sl_order)
  /\ entries # << >>
  /\ length - entries[Len(entries)].bar_len >= max_trade_duration

=============================================================================
